---- MODULE Spec2Model ----
(***************************************************************************)
(* Verification model of fotostudio-helper: the session clustering engine  *)
(* (sessions.js, public/lib/util.js) and the companion resolution / safe   *)
(* archival move subsystem (companions.js, routes/delete*.js,              *)
(* lib/import.js, routes/import.js).                                       *)
(***************************************************************************)
EXTENDS Integers, Sequences, FiniteSets, TLC

VARIABLES
    scanItems,   \* the sorted item list handed to the Session Grouper
    grp,         \* the last Session Grouper call: [impl, gap, out]
    grpPrev,     \* the call before it, on the same items
    presets,     \* the gap slider: the generator's last result, state.gapPresetsMs, state.gapMs
    fs,          \* regular files on disk: path -> content
    dirs,        \* directories on disk
    clock,       \* the millisecond clock (new Date(), Date.now())
    denied,      \* files whose rename / copy fails with EACCES
    req,         \* per request slot: the request being served
    target,      \* CONFIG.targetRoot and what is mounted there
    lastRun,     \* the last import that completed: its inputs, the disk after it
    served,      \* the number of requests received so far
    scan,        \* per request slot: the scan request being served
    progress,    \* lib/progress.js: the module-level scanProgress
    ui           \* the page: state.busy, the buttons, the operations in flight

groupVars == <<scanItems, grp, grpPrev, presets>>

fsVars == <<fs, dirs, clock, denied>>

impVars == <<target, lastRun>>

scanVars == <<scan, progress>>

vars == <<scanItems, grp, grpPrev, presets, fs, dirs, clock, denied, req, target, lastRun, served,
         scan, progress, ui>>

(***************************************************************************)
(* Idle values of the scan route and of the page                           *)
(***************************************************************************)
\* lib/progress.js: let scanProgress = { active: false, current: 0, total: 0 }
NoProgress == [active |-> FALSE, current |-> 0, total |-> 0, message |-> ""]

\* a request slot no scan is using
IdleScan ==
    [pc |-> "idle", root |-> <<>>, files |-> <<>>, c |-> 0, results |-> <<>>, calls |-> <<>>,
     nextIndex |-> 0, done |-> 0, lastReported |-> 0, reports |-> <<>>,
     workers |-> <<>>, pending |-> {}, failed |-> {}, statOk |-> {}, order |-> <<>>, status |-> 0, items |-> <<>>]

NoScans == [r \in {"r1", "r2"} |-> IdleScan]

\* an operation of the page that is not running
IdleOp == [pc |-> "idle", files |-> {}]

\* app.js state (lines 564-579) and the page before the first click
NoUi ==
    [busy |-> [scanning |-> FALSE, importing |-> FALSE, deleting |-> FALSE],
     scanBtnDisabled |-> FALSE, deleteBtnDisabled |-> FALSE, importBtnDisabled |-> FALSE,
     selected |-> FALSE, hasTarget |-> FALSE, serverSorted |-> TRUE,
     scanOp |-> IdleOp, importOp |-> IdleOp, deleteOp |-> IdleOp, deleteSessionOp |-> IdleOp]

(***************************************************************************)
(* Generic sequence helpers                                                *)
(***************************************************************************)
Last(s) == s[Len(s)]

Range(s) == { s[i] : i \in 1..Len(s) }

RECURSIVE Flatten(_)
Flatten(ss) == IF ss = <<>> THEN <<>> ELSE Head(ss) \o Flatten(Tail(ss))

(***************************************************************************)
(* Strings and paths.  A file or directory name is a sequence of           *)
(* one-character strings; an absolute path is the sequence of its names    *)
(* ("/" is <<>>).  The empty string, as a path value, is EmptyPath.        *)
(***************************************************************************)
UpperChars == <<"A","B","C","D","E","F","G","H","I","J","K","L","M",
                "N","O","P","Q","R","S","T","U","V","W","X","Y","Z">>

LowerChars == <<"a","b","c","d","e","f","g","h","i","j","k","l","m",
                "n","o","p","q","r","s","t","u","v","w","x","y","z">>

\* String.prototype.toLowerCase, one character
LowerChar(c) ==
    IF \E i \in 1..26 : UpperChars[i] = c
    THEN LowerChars[CHOOSE i \in 1..26 : UpperChars[i] = c]
    ELSE c

\* String.prototype.toLowerCase
lower(s) == [i \in 1..Len(s) |-> LowerChar(s[i])]

\* String.prototype.startsWith / endsWith / includes
StartsWith(s, pre) == Len(pre) <= Len(s) /\ SubSeq(s, 1, Len(pre)) = pre

EndsWith(s, suf) ==
    Len(suf) <= Len(s) /\ SubSeq(s, Len(s) - Len(suf) + 1, Len(s)) = suf

Includes(s, sub) ==
    \E i \in 1..(Len(s) - Len(sub) + 1) : SubSeq(s, i, i + Len(sub) - 1) = sub

DotDot == <<".", ".">>

\* index of the last "." of a name, 0 when it has none
LastDot(n) ==
    IF \E i \in 1..Len(n) : n[i] = "."
    THEN CHOOSE i \in 1..Len(n) : n[i] = "." /\ \A j \in (i+1)..Len(n) : n[j] # "."
    ELSE 0

\* path.extname of a file name: from the last dot on; "" when there is no
\* dot, when the only dot leads the name, and for ".."
extname(n) ==
    LET d == LastDot(n) IN
    IF d <= 1 \/ n = DotDot THEN <<>> ELSE SubSeq(n, d, Len(n))

\* companions.js stripExt
stripExt(fn) ==
    LET ext == extname(fn) IN
    IF ext # <<>> THEN SubSeq(fn, 1, Len(fn) - Len(ext)) ELSE fn

EmptyPath == << <<>> >>

\* the server's working directory, which path.resolve("") returns
Cwd == << <<"s","r","v">> >>

\* path.normalize on the names of an absolute path: "." and "" dropped,
\* ".." pops (and stays at "/")
RECURSIVE NormalizeFrom(_, _)
NormalizeFrom(segs, acc) ==
    IF segs = <<>> THEN acc
    ELSE LET h == Head(segs) IN
         IF h = <<>> \/ h = <<".">> THEN NormalizeFrom(Tail(segs), acc)
         ELSE IF h = DotDot
              THEN NormalizeFrom(Tail(segs),
                                 IF acc = <<>> THEN acc ELSE SubSeq(acc, 1, Len(acc) - 1))
              ELSE NormalizeFrom(Tail(segs), Append(acc, h))

\* path.resolve of one string: the empty string resolves to the cwd
resolve(p) == IF p = EmptyPath THEN Cwd ELSE NormalizeFrom(p, <<>>)

\* path.join
join(a, b) == NormalizeFrom(a \o b, <<>>)

dirname(p) == IF p = <<>> THEN <<>> ELSE SubSeq(p, 1, Len(p) - 1)

basename(p) == IF p = <<>> THEN <<>> ELSE Last(p)

\* length of the longest common prefix of two paths
RECURSIVE CommonLen(_, _)
CommonLen(a, b) ==
    IF a = <<>> \/ b = <<>> \/ Head(a) # Head(b) THEN 0
    ELSE 1 + CommonLen(Tail(a), Tail(b))

\* path.relative(from, to), as the names of the relative path ("" is <<>>)
relative(from, to) ==
    LET f == resolve(from)
        t == resolve(to)
        k == CommonLen(f, t)
    IN  [i \in 1..(Len(f) - k) |-> DotDot] \o SubSeq(t, k + 1, Len(t))

\* rel.startsWith("..") and rel.includes("../") on the joined string
RelStartsWithDotDot(rel) == rel # <<>> /\ StartsWith(rel[1], DotDot)

RelIncludesDotDotSep(rel) == \E i \in 1..(Len(rel) - 1) : EndsWith(rel[i], DotDot)

\* a is base or an ancestor directory of p (on normalized paths)
IsPrefix(base, p) == Len(base) <= Len(p) /\ SubSeq(p, 1, Len(base)) = base

(***************************************************************************)
(* The file system: regular files (path -> content) and directories        *)
(***************************************************************************)
nIn == <<"i", "n">>

nOut == <<"o", "u", "t">>

nA == <<"a">>

nD1arw == <<"D", "1", ".", "A", "R", "W">>

nD1xmp == <<"D", "1", ".", "x", "m", "p">>

nD1jpg == <<"D", "1", ".", "j", "p", "g">>

nD1arwOn1 == <<"D", "1", ".", "A", "R", "W", ".", "o", "n", "1">>

nD10on1 == <<"D", "1", "0", ".", "o", "n", "1">>

nD9arw == <<"D", "9", ".", "A", "R", "W">>

TrashName == <<".", "s", "t", "u", "d", "i", "o", "-", "h", "e", "l", "p", "e", "r",
               "-", "t", "r", "a", "s", "h">>

SourceRoot == <<nIn>>



nArch == <<"a", "r", "c", "h">>

\* the media on disk before any request
InitialFiles ==
    (<<nIn, nA, nD1arw>> :> "raw1") @@
    (<<nIn, nA, nD1xmp>> :> "xmp1") @@
    (<<nIn, nA, nD1jpg>> :> "jpg1") @@
    (<<nIn, nA, nD1arwOn1>> :> "on1") @@
    (<<nIn, nA, nD10on1>> :> "on10") @@
    (<<nOut, nD1arw>> :> "raw2") @@
    (<<nOut, nD1xmp>> :> "xmp2")

\* every ancestor directory of a path, "/" included
Ancestors(p) == { SubSeq(p, 1, k) : k \in 0..(Len(p) - 1) }

InitialDirs == UNION { Ancestors(p) : p \in DOMAIN InitialFiles } \cup {Cwd}

\* fsp.stat(p).isFile()
IsFile(files, p) == p \in DOMAIN files

\* fsp.access(p) / fs.existsSync(p)
Exists(files, ds, p) == p \in DOMAIN files \/ p \in ds

\* fsp.mkdir(p, {recursive: true})
MkdirP(ds, p) == ds \cup Ancestors(p) \cup {p}

\* the regular files and the subdirectories that readdir(dir) lists
FilesIn(files, dir) == { p \in DOMAIN files : dirname(p) = dir }


\* an ordered listing of a set (readdir and Set iteration order)
RECURSIVE SetToSeq(_)
SetToSeq(S) ==
    IF S = {} THEN <<>>
    ELSE LET x == CHOOSE y \in S : TRUE IN <<x>> \o SetToSeq(S \ {x})

\* append the members of seq b that seq a does not hold yet (Set.add order)
RECURSIVE AddAll(_, _)
AddAll(a, b) ==
    IF b = <<>> THEN a
    ELSE AddAll(IF Head(b) \in Range(a) THEN a ELSE Append(a, Head(b)), Tail(b))


(***************************************************************************)
(* companions.js                                                           *)
(***************************************************************************)
RAW_EXTS == { <<".", "a", "r", "w">>, <<".", "c", "r", "2">>, <<".", "c", "r", "3">>,
              <<".", "n", "e", "f">>, <<".", "r", "a", "f">>, <<".", "d", "n", "g">>,
              <<".", "r", "w", "2">>, <<".", "o", "r", "f">>, <<".", "p", "e", "f">>,
              <<".", "s", "r", "w">> }

JPEG_EXTS == { <<".", "j", "p", "g">>, <<".", "j", "p", "e", "g">> }

XMP_EXT == <<".", "x", "m", "p">>

ON1_FRAG == <<".", "o", "n", "1">>

ONPHOTO_FRAG == <<".", "o", "n", "p", "h", "o", "t", "o">>

SKIP_DIR_NAMES == { <<".", "T", "r", "a", "s", "h", "e", "s">>,
                    <<"_", "_", "M", "A", "C", "O", "S", "X">> }

SeparatorChars == {" ", ".", "_", "(", ")", "-"}

extLower(p) == lower(extname(p))

isRawName(fn) == extLower(fn) \in RAW_EXTS

isJpegName(fn) == extLower(fn) \in JPEG_EXTS

isXmpName(fn) == extLower(fn) = XMP_EXT

isHiddenName(n) == StartsWith(n, <<".">>)

shouldSkipDirName(n) == n = <<>> \/ isHiddenName(n) \/ n \in SKIP_DIR_NAMES

isOnArtifactNameLower(fnLower) ==
    Includes(fnLower, ON1_FRAG) \/ Includes(fnLower, ONPHOTO_FRAG)


\* belongsToBaseOrFull: the two startsWith tests return before the
\* separator test is reached
belongsToBaseOrFull(fn, base, full) ==
    IF fn = <<>> \/ base = <<>> \/ full = <<>> THEN FALSE
    ELSE IF StartsWith(fn, full) THEN TRUE
    ELSE IF StartsWith(fn, base) THEN TRUE
    ELSE IF Len(fn) > Len(base)
              /\ fn[Len(base) + 1] \in SeparatorChars /\ StartsWith(fn, base)
         THEN TRUE
    ELSE FALSE

\* assertInsideRoot: TRUE when it throws "primaryPath is outside sourceRoot"
assertInsideRootThrows(absPath, absRoot) ==
    LET rel == relative(resolve(absRoot), resolve(absPath)) IN
    rel = <<>> \/ RelStartsWithDotDot(rel) \/ RelIncludesDotDotSep(rel)

\* findCompanionsForImage(srcPath): same-directory sidecars and artifacts
findCompanionsForImage(files, ds, srcPath) ==
    LET dir  == dirname(srcPath)
        name == basename(srcPath)
        base == stripExt(name)
        hit(fn) == \/ fn = base \o XMP_EXT
                   \/ fn = name \o XMP_EXT
                   \/ /\ StartsWith(fn, base)
                      /\ (Includes(lower(fn), ON1_FRAG) \/ Includes(lower(fn), ONPHOTO_FRAG))
    IN  IF dir \notin ds THEN <<>>
        ELSE SetToSeq({ p \in FilesIn(files, dir) : hit(basename(p)) })

\* findCompanionsSameDir(primaryPath, {includeJpegForRaw})
findCompanionsSameDir(files, ds, src, includeJpegForRaw) ==
    LET dir  == dirname(src)
        name == basename(src)
        full == name
        base == stripExt(full)
        want == { lower(base \o XMP_EXT), lower(full \o XMP_EXT) } \cup
                (IF includeJpegForRaw /\ isRawName(name)
                 THEN { lower(base) \o e : e \in JPEG_EXTS } ELSE {})
        hit(fn) == /\ ~isHiddenName(fn)
                   /\ \/ lower(fn) \in want
                      \/ /\ isOnArtifactNameLower(lower(fn))
                         /\ belongsToBaseOrFull(fn, base, full)
    IN  IF src = EmptyPath \/ dir \notin ds THEN <<>>
        ELSE SetToSeq({ p \in FilesIn(files, dir) : hit(basename(p)) })

\* the directories buildCompanionIndex visits from root: no name below the
\* root is hidden or a skip name; a directory that cannot be read is skipped
VisitedDirs(ds, root) ==
    { d \in ds : /\ IsPrefix(root, d)
                 /\ \A k \in (Len(root) + 1)..Len(d) : ~shouldSkipDirName(d[k])
                 /\ \A k \in Len(root)..Len(d) : SubSeq(d, 1, k) \in ds }

\* index key of a file: lower(stripExt(name))
IndexKey(p) == lower(stripExt(basename(p)))

\* buildCompanionIndex(sourceRoot, {includeJpeg}): the indexed paths; the
\* bucket of a key is the indexed paths with that key
buildCompanionIndex(files, ds, sourceRoot, includeJpeg) ==
    LET root == resolve(sourceRoot) IN
    { p \in DOMAIN files :
        /\ dirname(p) \in VisitedDirs(ds, root)
        /\ ~isHiddenName(basename(p))
        /\ LET nameLower == lower(basename(p)) IN
              \/ isXmpName(nameLower)
              \/ isOnArtifactNameLower(nameLower)
              \/ (includeJpeg /\ isJpegName(nameLower))
        /\ IndexKey(p) # <<>> }

Bucket(index, k) == SetToSeq({ p \in index : IndexKey(p) = k })

\* resolveCompanions step 2, the root re-check of one indexed path
ArtifactInsideRoot(root, abs) ==
    LET rel == relative(root, abs) IN
    ~(RelStartsWithDotDot(rel) \/ RelIncludesDotDotSep(rel))

\* resolveCompanions(primaryPath, {sourceRoot, index, includeJpegForRaw})
resolveCompanions(primaryPath, sourceRoot, index, includeJpegForRaw) ==
    IF assertInsideRootThrows(primaryPath, sourceRoot)
    THEN [ok |-> FALSE, out |-> <<>>]
    ELSE
    LET root    == resolve(sourceRoot)
        p       == resolve(primaryPath)
        name    == basename(p)
        full    == name
        base    == stripExt(full)
        baseKey == lower(base)
        fullKey == lower(full)
        xmpBase == SelectSeq(Bucket(index, baseKey),
                     LAMBDA abs : lower(basename(abs)) = lower(base) \o XMP_EXT)
        xmpFull == SelectSeq(Bucket(index, fullKey),
                     LAMBDA abs : lower(basename(abs)) = lower(full) \o XMP_EXT)
        bucketKeys == << baseKey, fullKey,
                         baseKey \o ON1_FRAG, fullKey \o ON1_FRAG,
                         baseKey \o ONPHOTO_FRAG, fullKey \o ONPHOTO_FRAG >>
        artifacts(k) == SelectSeq(Bucket(index, k),
                     LAMBDA abs : /\ ArtifactInsideRoot(root, abs)
                                  /\ isOnArtifactNameLower(lower(basename(abs)))
                                  /\ belongsToBaseOrFull(basename(abs), base, full))
        allArtifacts == Flatten([i \in 1..Len(bucketKeys) |-> artifacts(bucketKeys[i])])
        jpgs    == IF includeJpegForRaw /\ isRawName(name)
                   THEN SelectSeq(Bucket(index, baseKey),
                          LAMBDA abs : lower(basename(abs)) \in
                                         { lower(base) \o e : e \in JPEG_EXTS })
                   ELSE <<>>
    IN  [ok |-> TRUE,
         out |-> AddAll(AddAll(AddAll(AddAll(<<>>, xmpBase), xmpFull), allArtifacts), jpgs)]

(***************************************************************************)
(* Traversal: lib/fsutil.js shouldSkipDirentName and walk, as the scan     *)
(* route calls it                                                          *)
(***************************************************************************)
\* routes/scan.js: ALLOWED_EXTS = new Set([...RAW_EXTS, ...JPEG_EXTS])
ALLOWED_EXTS == RAW_EXTS \cup JPEG_EXTS

\* shouldSkipDirentName without its tests on a leading dot and the trash name
shouldSkipDirentNameNoDot(n) ==
    \/ n = <<>>
    \/ n = <<"_", "_", "M", "A", "C", "O", "S", "X">>

\* shouldSkipDirentName(name): the tests on .DS_Store, .AppleDouble,
\* ._.DS_Store and .studio-helper-trash are cases of the leading dot
shouldSkipDirentName(n) ==
    \/ n = <<>>
    \/ StartsWith(n, <<".">>)
    \/ n = TrashName
    \/ n = <<"_", "_", "M", "A", "C", "O", "S", "X">>

\* walk(rootDir, allowedExts, {skipDirNames}): throws unless the root is a
\* directory; below it every entry with a skipped name is passed over,
\* directories named in skipDirNames are not entered, files with an
\* allowed extension are returned
walk(files, ds, rootDir, allowedExts, skipDirNames) ==
    LET root == resolve(rootDir) IN
    IF root \notin ds THEN [ok |-> FALSE, out |-> {}]
    ELSE [ok |-> TRUE,
          out |-> { p \in DOMAIN files :
                      /\ IsPrefix(root, p) /\ Len(p) > Len(root)
                      /\ \A k \in (Len(root) + 1)..Len(p) : ~shouldSkipDirentName(p[k])
                      /\ \A k \in (Len(root) + 1)..(Len(p) - 1) : p[k] \notin skipDirNames
                      /\ lower(extname(basename(p))) \in allowedExts }]

(***************************************************************************)
(* Session Grouper                                                         *)
(***************************************************************************)
MaxItems == 4

TsDomain == {0, 15000, 30000, 45000, 60000, 4000000}

GapMsDomain == {0, 15000, 30000, 60000, 3955000}

GapMinutesDomain == {0, 1, 2, 66}

\* items as the scan produces them: distinct paths, ascending timestamps
SortedItemLists ==
    UNION { { [i \in 1..n |-> [path |-> i, ts |-> f[i]]] :
                f \in { g \in [1..n -> TsDomain] :
                          \A i \in 1..(n-1) : g[i] <= g[i+1] } } :
            n \in 0..MaxItems }

NoCall == [impl |-> "none", gap |-> 0, out |-> <<>>]

\* app.js state before the first scan: no presets, a gap of 30 minutes
NoPresets ==
    [computed |-> <<>>, gapPresetsMs |-> <<>>, gapPresetIndex |-> 0, gapMs |-> 1800000,
     slider |-> 0]

\* the .map() that closes all three groupers: one session record per group
SessionOf(g, id) ==
    [ id          |-> id,
      start       |-> g[1].ts,
      end         |-> Last(g).ts,
      count       |-> Len(g),
      examplePath |-> g[1].path,
      items       |-> [i \in 1..Len(g) |-> g[i].path] ]

\* sessions.js: the for-loop body, on the state (sessions, current)
RECURSIVE ServerLoop(_, _, _, _)
ServerLoop(items, gapMs, sessions, current) ==
    IF items = <<>>
    THEN IF Len(current) > 0 THEN Append(sessions, current) ELSE sessions
    ELSE LET it == Head(items) IN
         IF Len(current) = 0
         THEN ServerLoop(Tail(items), gapMs, sessions, <<it>>)
         ELSE IF it.ts - Last(current).ts > gapMs
              THEN ServerLoop(Tail(items), gapMs, Append(sessions, current), <<it>>)
              ELSE ServerLoop(Tail(items), gapMs, sessions, Append(current, it))

groupSessions(items, gapMinutes) ==
    LET gapMs == gapMinutes * 60 * 1000
        groups == ServerLoop(items, gapMs, <<>>, <<>>)
    IN  [i \in 1..Len(groups) |-> SessionOf(groups[i], i - 1)]

\* the append-or-split test with a strict comparison, with the comparison inverted
ClientKeepsStrict(cur, it, gap) == Len(cur) = 0 \/ it.ts - Last(cur).ts < gap

ClientKeepsInverted(cur, it, gap) == Len(cur) = 0 \/ it.ts - Last(cur).ts > gap

\* the append-or-split test of the client loop
ClientKeeps(cur, it, gap) == Len(cur) = 0 \/ it.ts - Last(cur).ts <= gap

\* util.js: the for-loop body, on the state (groups, cur)
RECURSIVE ClientLoop(_, _, _, _)
ClientLoop(items, gap, groups, cur) ==
    IF items = <<>>
    THEN IF Len(cur) > 0 THEN Append(groups, cur) ELSE groups
    ELSE LET it == Head(items) IN
         IF ClientKeeps(cur, it, gap)
         THEN ClientLoop(Tail(items), gap, groups, Append(cur, it))
         ELSE ClientLoop(Tail(items), gap, Append(groups, cur), <<it>>)

\* the guarded revision of groupSessionsClient (empty list or bad gap -> [])
groupSessionsClient(items, gapMs) ==
    IF Len(items) = 0 THEN <<>>
    ELSE IF gapMs < 0 THEN <<>>
    ELSE LET groups == ClientLoop(items, gapMs, <<>>, <<>>)
         IN  [i \in 1..Len(groups) |-> SessionOf(groups[i], i)]

\* the unguarded revision of groupSessionsClient
groupSessionsClientPlain(items, gapMs) ==
    LET groups == ClientLoop(items, gapMs, <<>>, <<>>)
    IN  [i \in 1..Len(groups) |-> SessionOf(groups[i], i)]

\* threshold in ms that a recorded call used
ThresholdOf(call) == IF call.impl = "server" THEN call.gap * 60 * 1000 ELSE call.gap

InitGroup ==
    /\ scanItems \in SortedItemLists
    /\ grp = NoCall
    /\ grpPrev = NoCall
    /\ presets = NoPresets
    /\ fs = InitialFiles /\ dirs = InitialDirs /\ clock = 1 /\ denied = {}
    /\ req = [r \in {"r1", "r2"} |-> [pc |-> "idle"]]
    /\ target = [cfg |-> [t |-> "str", p |-> <<nArch>>], state |-> "missing"]
    /\ lastRun = [valid |-> FALSE, filesIn |-> <<>>, start |-> "undef", fs |-> <<>>]
    /\ served = 0
    /\ scan = NoScans /\ progress = NoProgress /\ ui = NoUi

GroupServer ==
    \E gm \in GapMinutesDomain :
        /\ grp' = [impl |-> "server", gap |-> gm, out |-> groupSessions(scanItems, gm)]
        /\ grpPrev' = grp
        /\ UNCHANGED <<scanItems, presets, fsVars, impVars, scanVars, ui, req, served>>

GroupClient ==
    \E g \in GapMsDomain :
        /\ grp' = [impl |-> "client", gap |-> g, out |-> groupSessionsClient(scanItems, g)]
        /\ grpPrev' = grp
        /\ UNCHANGED <<scanItems, presets, fsVars, impVars, scanVars, ui, req, served>>

GroupClientPlain ==
    \E g \in GapMsDomain :
        /\ grp' = [impl |-> "plain", gap |-> g, out |-> groupSessionsClientPlain(scanItems, g)]
        /\ grpPrev' = grp
        /\ UNCHANGED <<scanItems, presets, fsVars, impVars, scanVars, ui, req, served>>

NextGroup == GroupServer \/ GroupClient \/ GroupClientPlain

SpecGroup == InitGroup /\ [][NextGroup]_vars

(***************************************************************************)
(* Preset Generator: public/lib/util.js computeGapPresetsFromItems and     *)
(* uniqueSorted, public/app.js uiApplyGapPresets and gapSyncFromSlider     *)
(***************************************************************************)
\* the default parameters of computeGapPresetsFromItems
steps == 11

topK == 6

minFloorMs == 1000

FixedPresetsMs == <<1000, 2000, 5000, 10000, 30000, 60000>>

\* APP.FALLBACK_GAP_PRESETS_MS
FALLBACK_GAP_PRESETS_MS == <<5000, 15000, 30000, 60000, 300000, 1800000, 7200000>>

\* undefined and NaN: the one value that is not a finite number
NaN == -1

IsFinite(x) == x # NaN

MathMin(a, b) == IF a = NaN \/ b = NaN THEN NaN ELSE IF a <= b THEN a ELSE b

MathMax(a, b) == IF a = NaN \/ b = NaN THEN NaN ELSE IF a >= b THEN a ELSE b

\* the elements of a set of numbers in ascending order
Ascending(S) ==
    [i \in 1..Cardinality(S) |-> CHOOSE x \in S : Cardinality({ y \in S : y < x }) = i - 1]

\* Array.prototype.sort((a, b) => a - b) on finite numbers
SortNumbers(s) ==
    LET rank(i) == Cardinality({ j \in 1..Len(s) : s[j] < s[i] \/ (s[j] = s[i] /\ j < i) }) + 1
    IN  [k \in 1..Len(s) |-> s[CHOOSE i \in 1..Len(s) : rank(i) = k]]

\* uniqueSorted(arr): the finite positive numbers, once each, ascending
uniqueSorted(arr) == Ascending({ x \in Range(arr) : IsFinite(x) /\ x > 0 })

\* the log-spaced targets lie between the integers of the model: a target
\* is kept in half milliseconds, 2x for x, 2x+1 for a value just above x
Half(x) == 2 * x

\* snapUpToRealGap(target): lower bound by binary search over diffs, the
\* largest delta when no delta reaches the target, undefined without deltas
RECURSIVE SnapSearch(_, _, _, _)
SnapSearch(diffs, goal, lo, hi) ==
    IF lo < hi
    THEN LET mid == (lo + hi) \div 2 IN
         IF Half(diffs[mid + 1]) < goal
         THEN SnapSearch(diffs, goal, mid + 1, hi)
         ELSE SnapSearch(diffs, goal, lo, mid)
    ELSE lo

snapUpToRealGap(diffs, goal) ==
    IF diffs = <<>> THEN NaN
    ELSE LET lo == SnapSearch(diffs, goal, 0, Len(diffs) - 1) IN
         IF Half(diffs[lo + 1]) >= goal THEN diffs[lo + 1] ELSE Last(diffs)

\* Math.max(minFloorMs, Math.min(upper, t)) on a target
ClipTarget(upper, t) ==
    LET m == IF Half(upper) <= t THEN Half(upper) ELSE t
    IN  IF Half(minFloorMs) >= m THEN Half(minFloorMs) ELSE m

\* the sorted finite timestamps, the positive consecutive deltas and the
\* statistics computeGapPresetsFromItems derives from them
GapStats(items) ==
    LET ts    == SortNumbers(SelectSeq([i \in 1..Len(items) |-> items[i].ts], IsFinite))
        all   == [i \in 1..(Len(ts) - 1) |-> ts[i + 1] - ts[i]]
        diffs == SortNumbers(SelectSeq(all, LAMBDA d : d > 0))
        span  == IF ts = <<>> THEN 0 ELSE Last(ts) - ts[1]
        minDiff == MathMax(minFloorMs, IF diffs = <<>> THEN minFloorMs ELSE diffs[1])
        maxDiff == IF diffs = <<>> THEN minDiff ELSE Last(diffs)
    IN  [ts |-> ts, diffs |-> diffs, span |-> span, minDiff |-> minDiff,
         maxDiff |-> maxDiff, upper |-> MathMax(maxDiff, span)]

\* Math.exp and Math.log are implementation-approximated: a sample that is
\* x in exact arithmetic may come out just below x, as x, or just above x
Near(x) == {Half(x) - 1, Half(x), Half(x) + 1}

\* the values the snapped samples may take: the first sample is minDiff
\* and the last one upper, both up to rounding; the steps - 2 samples in
\* between lie anywhere from the first to the last
SnappedChoices(st) ==
    LET first == { ClipTarget(st.upper, t) : t \in Near(st.minDiff) }
        last  == { ClipTarget(st.upper, t) : t \in Near(st.upper) }
        marks == UNION { Near(d) : d \in Range(st.diffs) \cup {st.minDiff, st.upper} }
        mid   == { ClipTarget(st.upper, t) : t \in { u \in marks : Half(st.minDiff) - 1 <= u } }
        snap(t) == snapUpToRealGap(st.diffs, t)
    IN  { {snap(f), snap(l)} \cup M :
            f \in first, l \in last,
            M \in { N \in SUBSET { snap(t) : t \in mid } : Cardinality(N) <= steps - 2 } }

\* the data-derived branch of computeGapPresetsFromItems: union, clip to
\* [minFloorMs, span], uniqueSorted, then span appended when it is not last
DataPresets(st, snapped) ==
    LET clip(x) == MathMax(minFloorMs, MathMin(st.span, x))
        base == SelectSeq(FixedPresetsMs, LAMBDA x : x <= st.span)
        largest == SubSeq(st.diffs, MathMax(1, Len(st.diffs) - topK + 1), Len(st.diffs))
        cand == base \o SetToSeq(snapped) \o largest \o <<st.maxDiff, st.span>>
        out == uniqueSorted([i \in 1..Len(cand) |-> clip(cand[i])])
    IN  IF out = <<>> \/ Last(out) # st.span
        THEN uniqueSorted(Append(out, st.span))
        ELSE uniqueSorted(out)

\* computeGapPresetsFromItems with the fixed set returned only for no timestamp
computeGapPresetsFromItemsOnEmpty(items, snapped) ==
    IF Len(GapStats(items).ts) < 1 THEN uniqueSorted(FixedPresetsMs)
    ELSE DataPresets(GapStats(items), snapped)

\* computeGapPresetsFromItems(items) with the snapped samples it drew
computeGapPresetsFromItems(items, snapped) ==
    IF Len(GapStats(items).ts) < 2 THEN uniqueSorted(FixedPresetsMs)
    ELSE DataPresets(GapStats(items), snapped)

clamp(n, lo, hi) == IF n < lo THEN lo ELSE IF n > hi THEN hi ELSE n

\* findIndex(x => x >= gapMs), 0-based, -1 when there is none
FindIndexAtLeast(p, gapMs) ==
    IF \E i \in 1..Len(p) : p[i] >= gapMs
    THEN (CHOOSE i \in 1..Len(p) : p[i] >= gapMs /\ \A j \in 1..(i - 1) : p[j] < gapMs) - 1
    ELSE -1

\* gapSyncFromSlider with the slider at the given value
gapSyncFromSlider(ps, value) ==
    IF ps.gapPresetsMs = <<>> THEN ps
    ELSE LET idx == clamp(value, 0, Len(ps.gapPresetsMs) - 1)
         IN  [ps EXCEPT !.gapPresetIndex = idx, !.gapMs = ps.gapPresetsMs[idx + 1]]

\* uiApplyGapPresets(presetsMs, {keepNearest: true})
uiApplyGapPresets(ps, presetsMs) ==
    LET p0  == uniqueSorted(presetsMs)
        p   == IF Len(p0) < 2 THEN uniqueSorted(FALLBACK_GAP_PRESETS_MS) ELSE p0
        found == FindIndexAtLeast(p, ps.gapMs)
        idx == IF found < 0 THEN Len(p) - 1 ELSE found
        ix  == clamp(idx, 0, Len(p) - 1)
    IN  gapSyncFromSlider([ps EXCEPT !.gapPresetsMs = p, !.gapPresetIndex = ix,
                                     !.slider = ix], ix)

PresetTsDomain == {0, 500, 1500, 4000, 70000}

\* scan items after normalizeAndSortItems: ascending, equal timestamps allowed
PresetItemLists ==
    UNION { { [i \in 1..n |-> [path |-> i, ts |-> f[i]]] :
                f \in { g \in [1..n -> PresetTsDomain] :
                          \A i \in 1..(n-1) : g[i] <= g[i+1] } } :
            n \in 0..MaxItems }

\* the page after loading: line 1550 applies the fallback presets
InitPreset ==
    /\ scanItems \in PresetItemLists
    /\ grp = NoCall
    /\ grpPrev = NoCall
    /\ presets = uiApplyGapPresets(NoPresets, FALLBACK_GAP_PRESETS_MS)
    /\ fs = InitialFiles /\ dirs = InitialDirs /\ clock = 1 /\ denied = {}
    /\ req = [r \in {"r1", "r2"} |-> [pc |-> "idle"]]
    /\ target = [cfg |-> [t |-> "str", p |-> <<nArch>>], state |-> "missing"]
    /\ lastRun = [valid |-> FALSE, filesIn |-> <<>>, start |-> "undef", fs |-> <<>>]
    /\ served = 0
    /\ scan = NoScans /\ progress = NoProgress /\ ui = NoUi

\* regroupSessionsAndRerender on the given state.scanItems, with the slider
\* at the given value
RegroupOn(items, ps, value) ==
    IF items = <<>>
    THEN /\ presets' = ps
         /\ UNCHANGED <<grp, grpPrev>>
    ELSE LET synced == gapSyncFromSlider(ps, value) IN
         /\ presets' = synced
         /\ grp' = [impl |-> "plain", gap |-> synced.gapMs,
                    out |-> groupSessionsClientPlain(items, synced.gapMs)]
         /\ UNCHANGED grpPrev

Regroup(ps, value) == RegroupOn(scanItems, ps, value)

\* applyScanItemsToUi: compute the presets, apply them, regroup
ApplyScanItems ==
    /\ \E snapped \in SnappedChoices(GapStats(scanItems)) :
         LET computed == computeGapPresetsFromItems(scanItems, snapped)
             applied  == uiApplyGapPresets([presets EXCEPT !.computed = computed], computed)
         IN  Regroup(applied, applied.gapPresetIndex)
    /\ UNCHANGED <<scanItems, fsVars, impVars, scanVars, ui, req, served>>

\* the slider's input event
SliderInput ==
    /\ \E value \in 0..MathMax(1, Len(presets.gapPresetsMs) - 1) :
         Regroup([presets EXCEPT !.slider = value], value)
    /\ UNCHANGED <<scanItems, fsVars, impVars, scanVars, ui, req, served>>

NextPreset == ApplyScanItems \/ SliderInput

SpecPreset == InitPreset /\ [][NextPreset]_vars

(***************************************************************************)
(* Trash-move: routes/delete-photoSession.js and routes/delete.js          *)
(***************************************************************************)
MaxClock == 2

MaxFiles == 2

MaxRequests == 2

Reqs == {"r1", "r2"}

\* request body values: undefined, "", a whitespace-only string, a path
RawUndef == [t |-> "undef", p |-> <<>>]

RawEmpty == [t |-> "empty", p |-> <<>>]

RawBlank == [t |-> "blank", p |-> <<>>]

RawPath(p) == [t |-> "str", p |-> p]

\* JavaScript truthiness of a request value (!x is its negation)
Truthy(raw) == raw.t \in {"blank", "str"}

\* normalizeAbs: String(p || "").trim(), "" stays "", else path.resolve
normalizeAbs(raw) == IF raw.t # "str" THEN EmptyPath ELSE resolve(raw.p)

\* asStringArray: trimmed strings, the empty ones filtered out
asStringArray(list) == SelectSeq(list, LAMBDA x : x.t = "str")

\* isPathInside without its test for a leading ".."
isPathInsideNoDotDot(childAbs, parentAbs) ==
    relative(parentAbs, childAbs) # <<>>

\* isPathInside(childAbs, parentAbs) of both delete routes
isPathInside(childAbs, parentAbs) ==
    LET rel == relative(parentAbs, childAbs) IN
    rel # <<>> /\ ~RelStartsWithDotDot(rel)

DigitChars == <<"0", "1", "2", "3", "4", "5", "6", "7", "8", "9">>

\* the decimal digits of a clock reading
Digits(t) == IF t < 10 THEN <<DigitChars[t + 1]>>
             ELSE <<DigitChars[(t \div 10) + 1], DigitChars[(t % 10) + 1]>>

\* isoStamp(): the ISO time with ":" and "." replaced, one name per ms
isoStamp(t) == <<"T">> \o Digits(t)

\* the collision suffix `-${Date.now()}` put before the extension
WithSuffix(name, t) ==
    LET ext == extname(name) IN
    IF ext # <<>>
    THEN SubSeq(name, 1, Len(name) - Len(ext)) \o <<"-">> \o Digits(t) \o ext
    ELSE name \o <<"-">> \o Digits(t)

NoRun == [valid |-> FALSE, filesIn |-> <<>>, start |-> "undef", fs |-> <<>>]

IdleReq ==
    [ kind |-> "none", pc |-> "idle", rootIn |-> RawUndef, filesIn |-> <<>>,
      root |-> EmptyPath, prim |-> <<>>, targets |-> <<>>, i |-> 0,
      trashDir |-> EmptyPath, dst |-> EmptyPath,
      moved |-> <<>>, skipped |-> <<>>, errors |-> <<>>,
      status |-> 0, code |-> "", log |-> {}, variant |-> "", scope |-> EmptyPath,
      fs0 |-> <<>>, dirs0 |-> {},
      start |-> "undef", ts |-> "none", cur |-> [src |-> EmptyPath, dstDir |-> EmptyPath],
      comps |-> <<>>, j |-> 0, copied |-> 0, nskipped |-> 0, fileMap |-> <<>>,
      sessionDir |-> EmptyPath, rerun |-> FALSE, prev |-> <<>> ]

RootInputs ==
    { RawUndef, RawEmpty, RawBlank, RawPath(SourceRoot), RawPath(<<nIn, nA, nD1arw>>) }

FileInputs ==
    { RawUndef, RawBlank,
      RawPath(<<nIn, nA, nD1arw>>),
      RawPath(SourceRoot \o <<nA, DotDot, nA, nD1arw>>),
      RawPath(SourceRoot \o <<DotDot, nOut, nD1arw>>),
      RawPath(<<nOut, nD1arw>>),
      RawPath(<<nIn, nA, nD1xmp>>),
      RawPath(<<nIn, nA, nD9arw>>) }

FileListInputs == UNION { [1..n -> FileInputs] : n \in 0..MaxFiles }

MkdirOp(p) == [op |-> "mkdir", path |-> p, to |-> <<>>]

RenameOp(from, to) == [op |-> "rename", path |-> from, to |-> to]

\* the response that ends a request
Reject(rq, status, code) == [rq EXCEPT !.pc = "done", !.status = status, !.code = code]

\* POST /api/delete-session, steps 1 and 2: validate and normalize
DsStartFrom(r, roots, lists) ==
    /\ req[r].pc = "idle"
    /\ served < MaxRequests
    /\ \E rootIn \in roots, filesIn \in lists :
         LET sourceRootAbs == normalizeAbs(rootIn)
             files         == asStringArray(filesIn)
             primaryAbs    == [k \in 1..Len(files) |-> normalizeAbs(files[k])]
             rq == [IdleReq EXCEPT !.kind = "ds", !.rootIn = rootIn, !.filesIn = filesIn,
                                   !.fs0 = fs, !.dirs0 = dirs,
                                   !.root = sourceRootAbs, !.prim = primaryAbs]
         IN  req' = [req EXCEPT ![r] =
               IF sourceRootAbs = EmptyPath THEN Reject(rq, 400, "MISSING_SOURCE_ROOT")
               ELSE IF Len(files) = 0 THEN Reject(rq, 400, "MISSING_FILES")
               ELSE IF \E k \in 1..Len(primaryAbs) :
                          ~isPathInside(primaryAbs[k], sourceRootAbs)
                    THEN Reject(rq, 403, "OUTSIDE_ROOT")
               ELSE [rq EXCEPT !.pc = "collect"]]
    /\ served' = served + 1
    /\ UNCHANGED <<groupVars, impVars, scanVars, ui, fsVars>>

DsStart(r) == DsStartFrom(r, RootInputs, FileListInputs)

\* the collection into a list instead of a Set: a path is added each time
\* it is met
RECURSIVE CollectTargetsNoSet(_, _, _, _)
CollectTargetsNoSet(prims, root, index, targets) ==
    IF prims = <<>> THEN targets
    ELSE LET abs == Head(prims)
             companions == resolveCompanions(abs, root, index, TRUE).out
             inside == SelectSeq(companions, LAMBDA c : isPathInside(c, root))
         IN  CollectTargetsNoSet(Tail(prims), root, index, targets \o <<abs>> \o inside)

\* the targets one primary adds: itself, then its companions inside the root
RECURSIVE CollectTargets(_, _, _, _)
CollectTargets(prims, root, index, targets) ==
    IF prims = <<>> THEN targets
    ELSE LET abs == Head(prims)
             companions == resolveCompanions(abs, root, index, TRUE).out
             inside == SelectSeq(companions, LAMBDA c : isPathInside(c, root))
         IN  CollectTargets(Tail(prims), root, index,
                            AddAll(AddAll(targets, <<abs>>), inside))

\* steps 3 and 4: build the index once, collect the deduplicated targets
DsCollect(r) ==
    /\ req[r].pc = "collect"
    /\ LET rq    == req[r]
           index == buildCompanionIndex(fs, dirs, rq.root, TRUE)
       IN  req' = [req EXCEPT ![r] =
             IF \E k \in 1..Len(rq.prim) :
                    ~resolveCompanions(rq.prim[k], rq.root, index, TRUE).ok
             THEN Reject(rq, 500, "")
             ELSE [rq EXCEPT !.pc = "mktrash",
                             !.targets = CollectTargets(rq.prim, rq.root, index, <<>>)]]
    /\ UNCHANGED <<groupVars, served, impVars, scanVars, ui, fsVars>>

\* POST /api/delete: validate
DelStart(r) ==
    /\ req[r].pc = "idle"
    /\ served < MaxRequests
    /\ \E rootIn \in RootInputs, file \in FileInputs :
         LET absFile == normalizeAbs(file)
             absRoot == normalizeAbs(rootIn)
             rq == [IdleReq EXCEPT !.kind = "del", !.rootIn = rootIn, !.filesIn = <<file>>,
                                   !.fs0 = fs, !.dirs0 = dirs,
                                   !.root = absRoot, !.prim = <<absFile>>]
         IN  req' = [req EXCEPT ![r] =
               IF ~Truthy(file) THEN Reject(rq, 400, "MISSING_FILE")
               ELSE IF ~Truthy(rootIn) THEN Reject(rq, 400, "MISSING_SOURCE_ROOT")
               ELSE IF ~isPathInside(absFile, absRoot) /\ absFile # absRoot
                    THEN Reject(rq, 403, "OUTSIDE_ROOT")
               ELSE [rq EXCEPT !.pc = "delstat"]]
    /\ served' = served + 1
    /\ UNCHANGED <<groupVars, impVars, scanVars, ui, fsVars>>

\* POST /api/delete: the main file must exist and be a file
DelStat(r) ==
    /\ req[r].pc = "delstat"
    /\ req' = [req EXCEPT ![r] =
         IF ~IsFile(fs, req[r].prim[1]) THEN Reject(req[r], 404, "NOT_FOUND")
         ELSE [req[r] EXCEPT !.pc = "delcollect"]]
    /\ UNCHANGED <<groupVars, served, impVars, scanVars, ui, fsVars>>

\* POST /api/delete: main file + same-directory companions inside the root
DelCollect(r) ==
    /\ req[r].pc = "delcollect"
    /\ LET rq == req[r]
           absFile == rq.prim[1]
           companions == findCompanionsForImage(fs, dirs, absFile)
           candidates == SelectSeq(<<absFile>> \o companions,
                           LAMBDA c : isPathInside(c, rq.root) \/ c = rq.root)
       IN  req' = [req EXCEPT ![r] = [rq EXCEPT !.pc = "mktrash", !.targets = candidates]]
    /\ UNCHANGED <<groupVars, served, impVars, scanVars, ui, fsVars>>

ResolverVariants == {"index", "image", "samedir"}

\* the tree an index handed to the resolver was built over: the root, or "/"
IndexScopes == {SourceRoot, <<>>}

PrimaryInputs == { f \in FileInputs : f.t = "str" }

\* one call of a companion resolver on the current tree:
\* resolveCompanions with a prebuilt index, findCompanionsForImage (as
\* called by POST /api/delete), findCompanionsSameDir (as called by import)
ResolveCall(r) ==
    /\ req[r].pc = "idle"
    /\ served < MaxRequests
    /\ \E variant \in ResolverVariants, file \in PrimaryInputs, scope \in IndexScopes :
         LET index == buildCompanionIndex(fs, dirs, scope, TRUE)
             res   == resolveCompanions(file.p, SourceRoot, index, TRUE)
             abs   == resolve(file.p)
             rq == [IdleReq EXCEPT !.kind = "res", !.variant = variant, !.scope = scope,
                                   !.rootIn = RawPath(SourceRoot), !.filesIn = <<file>>,
                                   !.root = SourceRoot, !.prim = <<abs>>, !.pc = "done"]
         IN  /\ variant # "index" => scope = SourceRoot
             /\ req' = [req EXCEPT ![r] =
                  CASE variant = "index" ->
                         IF res.ok THEN [rq EXCEPT !.targets = res.out, !.code = "RETURNED"]
                         ELSE [rq EXCEPT !.code = "THROWN"]
                    [] variant = "image" ->
                         [rq EXCEPT !.targets = findCompanionsForImage(fs, dirs, abs),
                                    !.code = "RETURNED"]
                    [] OTHER ->
                         [rq EXCEPT !.targets = findCompanionsSameDir(fs, dirs, abs, TRUE),
                                    !.code = "RETURNED"]]
    /\ served' = served + 1
    /\ UNCHANGED <<groupVars, impVars, scanVars, ui, fsVars>>

\* the trash directory of a request, named by the clock at its creation
TrashDirOf(rq, now) ==
    IF rq.kind = "ds"
    THEN join(rq.root, <<TrashName, isoStamp(now)>>)
    ELSE join(join(dirname(rq.prim[1]), <<TrashName>>), <<isoStamp(now)>>)

\* one trash directory per request: fsp.mkdir(trashDir, {recursive: true})
MkTrash(r) ==
    /\ req[r].pc = "mktrash"
    /\ LET trashDir == TrashDirOf(req[r], clock) IN
         /\ dirs' = MkdirP(dirs, trashDir)
         /\ req' = [req EXCEPT ![r] =
              [req[r] EXCEPT !.pc = "stat", !.i = 1, !.trashDir = trashDir,
                             !.log = @ \cup {MkdirOp(trashDir)}]]
    /\ UNCHANGED <<groupVars, served, impVars, scanVars, ui, fs, clock, denied>>

\* the move loop: statIsFile(abs), a missing target is skipped
TrashStat(r) ==
    /\ req[r].pc = "stat"
    /\ req[r].i <= Len(req[r].targets)
    /\ LET rq == req[r]
           abs == rq.targets[rq.i]
       IN  req' = [req EXCEPT ![r] =
             IF ~IsFile(fs, abs)
             THEN [rq EXCEPT !.skipped = Append(@, abs), !.i = @ + 1]
             ELSE [rq EXCEPT !.pc = "prep"]]
    /\ UNCHANGED <<groupVars, served, impVars, scanVars, ui, fsVars>>

\* moveToTrashPreserveRel up to its rename: the scope check, the parent
\* directory, the collision suffix; moveToTrash: the collision suffix
TrashPrep(r) ==
    /\ req[r].pc = "prep"
    /\ LET rq  == req[r]
           abs == rq.targets[rq.i]
           rel == relative(rq.root, abs)
           dst0 == IF rq.kind = "ds" THEN join(rq.trashDir, rel)
                   ELSE join(rq.trashDir, <<basename(abs)>>)
           ds1 == IF rq.kind = "ds" THEN MkdirP(dirs, dirname(dst0)) ELSE dirs
           dst == IF Exists(fs, ds1, dst0)
                  THEN Append(dirname(dst0), WithSuffix(basename(dst0), clock))
                  ELSE dst0
       IN  IF rq.kind = "ds" /\ (rel = <<>> \/ RelStartsWithDotDot(rel))
           THEN /\ req' = [req EXCEPT ![r] =
                     [rq EXCEPT !.errors = Append(@, abs), !.i = @ + 1, !.pc = "stat"]]
                /\ UNCHANGED dirs
           ELSE /\ dirs' = ds1
                /\ req' = [req EXCEPT ![r] =
                     [rq EXCEPT !.pc = "rename", !.dst = dst,
                                !.log = IF rq.kind = "ds"
                                        THEN @ \cup {MkdirOp(dirname(dst0))} ELSE @]]
    /\ UNCHANGED <<groupVars, served, impVars, scanVars, ui, fs, clock, denied>>

\* fsp.rename(from, to) fails when the source is gone or denied, or when
\* the destination's directory is missing or the destination is a directory
RenameFails(files, ds, dn, from, to) ==
    \/ from \in dn
    \/ from \notin DOMAIN files
    \/ dirname(to) \notin ds
    \/ to \in ds

Renamed(files, from, to) ==
    [p \in (DOMAIN files \ {from}) \cup {to} |-> IF p = to THEN files[from] ELSE files[p]]

\* the rename of the move loop; a failure is caught into errors
TrashRename(r) ==
    /\ req[r].pc = "rename"
    /\ LET rq  == req[r]
           abs == rq.targets[rq.i]
       IN  IF RenameFails(fs, dirs, denied, abs, rq.dst)
           THEN /\ req' = [req EXCEPT ![r] =
                     [rq EXCEPT !.errors = Append(@, abs), !.i = @ + 1, !.pc = "stat"]]
                /\ UNCHANGED fs
           ELSE /\ fs' = Renamed(fs, abs, rq.dst)
                /\ req' = [req EXCEPT ![r] =
                     [rq EXCEPT !.moved = Append(@, [from |-> abs, to |-> rq.dst]),
                                !.i = @ + 1, !.pc = "stat",
                                !.log = @ \cup {RenameOp(abs, rq.dst)}]]
    /\ UNCHANGED <<groupVars, served, impVars, scanVars, ui, dirs, clock, denied>>

\* res.json({ok: true, moved, skipped, errors})
TrashRespond(r) ==
    /\ req[r].pc = "stat"
    /\ req[r].i > Len(req[r].targets)
    /\ req' = [req EXCEPT ![r] = [req[r] EXCEPT !.pc = "done", !.status = 200]]
    /\ UNCHANGED <<groupVars, served, impVars, scanVars, ui, fsVars>>

\* the slot is free for the next request
Release(r) ==
    /\ req[r].pc = "done"
    /\ req' = [req EXCEPT ![r] = IdleReq]
    /\ UNCHANGED <<groupVars, served, impVars, scanVars, ui, fsVars>>

\* time passes
Tick ==
    /\ clock < MaxClock
    /\ clock' = clock + 1
    /\ UNCHANGED <<groupVars, served, impVars, scanVars, ui, fs, dirs, denied, req>>

DeniedChoices == { {}, { <<nIn, nA, nD1xmp>> } }

InitTrash ==
    /\ scanItems = <<>> /\ grp = NoCall /\ grpPrev = NoCall /\ presets = NoPresets
    /\ fs = InitialFiles
    /\ dirs = InitialDirs
    /\ clock = 1
    /\ denied \in DeniedChoices
    /\ req = [r \in Reqs |-> IdleReq]
    /\ target = [cfg |-> RawPath(<<nArch>>), state |-> "missing"]
    /\ lastRun = NoRun
    /\ served = 0
    /\ scan = NoScans /\ progress = NoProgress /\ ui = NoUi

NextTrash ==
    \/ DsStart("r1") \/ DsCollect("r1")
    \/ DelStart("r1") \/ DelStat("r1") \/ DelCollect("r1")
    \/ MkTrash("r1") \/ TrashStat("r1") \/ TrashPrep("r1") \/ TrashRename("r1")
    \/ TrashRespond("r1") \/ Release("r1")
    \/ ResolveCall("r1")
    \/ Tick

SpecTrash == InitTrash /\ [][NextTrash]_vars

\* a raw editor writes a sidecar again after it was moved away
Recreate ==
    /\ \E p \in DOMAIN InitialFiles \ DOMAIN fs :
         /\ isXmpName(basename(p))
         /\ dirname(p) \in dirs
         /\ fs' = (p :> "rewritten") @@ fs
    /\ UNCHANGED <<groupVars, served, impVars, scanVars, ui, dirs, clock, denied, req>>

\* the requests of two clients that delete from the same root
PairFileLists ==
    { <<RawPath(<<nIn, nA, nD1arw>>)>>, <<RawPath(<<nIn, nA, nD1xmp>>)>> }

\* two delete-session requests in flight: every await of one handler is a
\* point where the other handler runs
NextTrashPair ==
    \/ \E r \in Reqs :
          \/ DsStartFrom(r, {RawPath(SourceRoot)}, PairFileLists)
          \/ DsCollect(r) \/ MkTrash(r) \/ TrashStat(r) \/ TrashPrep(r)
          \/ TrashRename(r) \/ TrashRespond(r)
    \/ Recreate
    \/ Tick

SpecTrashPair == InitTrash /\ [][NextTrashPair]_vars

(***************************************************************************)
(* Companion index build on roots and trees that cannot be read            *)
(***************************************************************************)
\* buildCompanionIndex throws only when path.resolve() yields the empty string
buildCompanionIndexThrows(sourceRoot) == resolve(sourceRoot) = EmptyPath

\* the roots an index is asked for: the source root, a subdirectory, a
\* regular file, a path that does not exist, the empty string
IndexRootInputs ==
    { SourceRoot, <<nIn, nA>>, <<nIn, nA, nD1arw>>, <<nIn, nD9arw>>, EmptyPath }

\* directories whose readdir fails with EACCES
UnreadableChoices == SUBSET { SourceRoot, <<nIn, nA>>, Cwd }

InitIndex ==
    /\ scanItems = <<>> /\ grp = NoCall /\ grpPrev = NoCall /\ presets = NoPresets
    /\ fs = InitialFiles
    /\ dirs = InitialDirs
    /\ clock = 1
    /\ denied \in UnreadableChoices
    /\ req = [r \in Reqs |-> IdleReq]
    /\ target = [cfg |-> RawPath(<<nArch>>), state |-> "missing"]
    /\ lastRun = NoRun
    /\ served = 0
    /\ scan = NoScans /\ progress = NoProgress /\ ui = NoUi

\* one call buildCompanionIndex(sourceRoot, {includeJpeg}): readdir fails on
\* a directory that is missing or unreadable, and the loop goes on
IndexCall(r) ==
    /\ req[r].pc = "idle"
    /\ served < MaxRequests
    /\ \E sourceRoot \in IndexRootInputs, includeJpeg \in BOOLEAN :
         LET rq == [IdleReq EXCEPT !.kind = "idx", !.pc = "done", !.scope = sourceRoot,
                                   !.root = resolve(sourceRoot),
                                   !.variant = IF includeJpeg THEN "jpeg" ELSE "nojpeg"]
         IN  req' = [req EXCEPT ![r] =
               IF buildCompanionIndexThrows(sourceRoot)
               THEN [rq EXCEPT !.code = "THROWN"]
               ELSE [rq EXCEPT !.code = "RETURNED",
                               !.targets = SetToSeq(buildCompanionIndex(
                                               fs, dirs \ denied, sourceRoot, includeJpeg))]]
    /\ served' = served + 1
    /\ UNCHANGED <<groupVars, impVars, scanVars, ui, fsVars>>

NextIndex == \E r \in Reqs : IndexCall(r) \/ Release(r)

SpecIndex == InitIndex /\ [][NextIndex]_vars

(***************************************************************************)
(* Import: routes/import.js and lib/import.js                              *)
(***************************************************************************)
nYear == <<"2", "0", "2", "4">>

nMonth == <<"0", "1">>

\* `${ymd} ${title}__${camera}` of the one session the requests name
nSession == <<"2", "0", "2", "4", "-", "0", "1", "-", "0", "1", " ", "T", "_", "_", "C">>

nOriginals == <<"o", "r", "i", "g", "i", "n", "a", "l", "s">>

nExports == <<"e", "x", "p", "o", "r", "t", "s">>

nJpg == <<"j", "p", "g">>

nTif == <<"t", "i", "f">>

nJpgKlein == <<"j", "p", "g", "-", "k", "l", "e", "i", "n">>

nSessionJson == <<"s", "e", "s", "s", "i", "o", "n", ".", "j", "s", "o", "n">>

nImportLog == <<".", "i", "m", "p", "o", "r", "t", ".", "l", "o", "g">>

CamLabel == <<"C">>

UnknownLabel == <<"U", "n", "k", "n", "o", "w", "n">>

TargetRoot == <<nArch>>

\* CONFIG.targetRoot, and what is found at that path
TargetInputs ==
    { [cfg |-> RawEmpty, state |-> "ok"] } \cup
    { [cfg |-> RawPath(TargetRoot), state |-> st] :
        st \in {"ok", "missing", "file", "readonly"} }

\* request body values of sessionStart: absent, a millisecond number, a
\* finite number beyond the Date range, an unparseable string
StartInputs == {"undef", "num", "hugenum", "badstr"}

ImportFileInputs ==
    { RawPath(<<nIn, nA, nD1arw>>),
      RawPath(<<nOut, nD1arw>>),
      RawPath(<<nIn, nA, nD9arw>>) }

ImportFileLists == UNION { [1..n -> ImportFileInputs] : n \in 0..MaxFiles }

\* toTsMs(value): a positive finite number as is, a date string parsed,
\* an unparseable one throws BAD_TIMESTAMP
toTsMs(value) ==
    CASE value = "num"     -> [ok |-> TRUE, ts |-> "valid"]
      [] value = "hugenum" -> [ok |-> TRUE, ts |-> "huge"]
      [] value = "datestr" -> [ok |-> TRUE, ts |-> "valid"]
      [] value = "undef"   -> [ok |-> TRUE, ts |-> "none"]
      [] OTHER             -> [ok |-> FALSE, ts |-> "none"]

\* ymdFromTs without its test for an invalid Date
ymdFromTsUnchecked(ts) == [ok |-> TRUE, yyyy |-> nYear, mm |-> nMonth]

\* ymdFromTs(ts): null when new Date(ts) is invalid
ymdFromTs(ts) ==
    IF ts = "valid" THEN [ok |-> TRUE, yyyy |-> nYear, mm |-> nMonth]
    ELSE [ok |-> FALSE, yyyy |-> <<>>, mm |-> <<>>]

\* assertWritableRoot(CONFIG.targetRoot): the error it throws, or none
assertWritableRoot(files, ds, tgt) ==
    CASE tgt.cfg.t # "str" ->
           [ok |-> FALSE, status |-> 400, code |-> "MISSING_ROOT"]
      [] ~Exists(files, ds, tgt.cfg.p) ->
           [ok |-> FALSE, status |-> 409, code |-> "ROOT_NOT_FOUND"]
      [] tgt.cfg.p \notin ds ->
           [ok |-> FALSE, status |-> 409, code |-> "NOT_A_DIRECTORY"]
      [] tgt.state = "readonly" ->
           [ok |-> FALSE, status |-> 403, code |-> "NOT_WRITABLE"]
      [] OTHER -> [ok |-> TRUE, status |-> 0, code |-> ""]

\* buildSessionFolders({targetRoot, firstImageTs, title})
buildSessionFolders(root, ts) ==
    LET parts      == ymdFromTs(ts)
        yearDir    == join(root, <<parts.yyyy>>)
        monthDir   == join(yearDir, <<parts.mm>>)
        sessionDir == join(monthDir, <<nSession>>)
    IN  [ ok |-> parts.ok, yearDir |-> yearDir, monthDir |-> monthDir,
          sessionDir |-> sessionDir,
          originalsDir |-> join(sessionDir, <<nOriginals>>),
          exportsDir |-> join(sessionDir, <<nExports>>) ]

\* the directories ensureSessionFolders and ensureExportSubfolders create
SessionDirsOf(folders) ==
    { folders.yearDir, folders.monthDir, folders.sessionDir,
      folders.originalsDir, folders.exportsDir,
      join(folders.exportsDir, <<nJpg>>), join(folders.exportsDir, <<nTif>>),
      join(folders.exportsDir, <<nJpgKlein>>) }

\* cameraLabelFor(absPath): the EXIF label, "Unknown" when it cannot be read
cameraLabelFor(files, src) == IF IsFile(files, src) THEN CamLabel ELSE UnknownLabel

\* ensureCameraPrefix(filename, cameraLabel)
ensureCameraPrefix(filename, cam) ==
    LET prefix == cam \o <<"_", "_">> IN
    IF StartsWith(filename, prefix) THEN filename ELSE prefix \o filename

\* copyFileEnsured copies unconditionally
DstIsFreeAlways(files, ds, d) == TRUE

\* copyFileEnsured: fsp.access(d) fails, so the file is to be copied
DstIsFree(files, ds, d) == ~Exists(files, ds, d)

CopyOp(from, to) == [op |-> "copy", path |-> from, to |-> to]

WriteOp(p) == [op |-> "write", path |-> p, to |-> <<>>]

\* the files of the source tree, the archive left out
SourceTree(files) == { <<p, files[p]>> : p \in { q \in DOMAIN files : ~IsPrefix(TargetRoot, q) } }

\* POST /api/import: normalizeImportPayload
ImpStart(r) ==
    /\ req[r].pc = "idle"
    /\ served < MaxRequests
    /\ \E filesIn \in ImportFileLists, start \in StartInputs :
         LET files == asStringArray(filesIn)
             t     == toTsMs(start)
             rq == [IdleReq EXCEPT !.kind = "imp", !.filesIn = filesIn, !.start = start,
                      !.prim = [k \in 1..Len(files) |-> files[k].p], !.ts = t.ts,
                      !.fs0 = fs, !.dirs0 = dirs,
                      !.rerun = /\ lastRun.valid
                                /\ lastRun.filesIn = filesIn /\ lastRun.start = start
                                /\ SourceTree(lastRun.fs) = SourceTree(fs),
                      !.prev = lastRun.fs]
         IN  req' = [req EXCEPT ![r] =
               IF Len(files) = 0 THEN Reject(rq, 400, "NO_FILES")
               ELSE IF start = "undef" THEN Reject(rq, 400, "MISSING_SESSION_START")
               ELSE IF ~t.ok THEN Reject(rq, 400, "BAD_TIMESTAMP")
               ELSE [rq EXCEPT !.pc = "root"]]
    /\ served' = served + 1
    /\ UNCHANGED <<groupVars, impVars, scanVars, ui, fsVars>>

\* assertWritableRoot(CONFIG.targetRoot)
ImpRoot(r) ==
    /\ req[r].pc = "root"
    /\ LET chk == assertWritableRoot(fs, dirs, target) IN
       req' = [req EXCEPT ![r] =
         IF ~chk.ok THEN Reject(req[r], chk.status, chk.code)
         ELSE [req[r] EXCEPT !.pc = "folders", !.root = target.cfg.p]]
    /\ UNCHANGED <<groupVars, served, impVars, scanVars, ui, fsVars>>

\* buildSessionFolders, ensureSessionFolders, ensureExportSubfolders
ImpFolders(r) ==
    /\ req[r].pc = "folders"
    /\ LET rq == req[r]
           folders == buildSessionFolders(rq.root, rq.ts)
           made == SessionDirsOf(folders)
       IN  IF ~folders.ok
           THEN /\ req' = [req EXCEPT ![r] = Reject(rq, 400, "BAD_TIMESTAMP")]
                /\ UNCHANGED dirs
           ELSE /\ dirs' = dirs \cup made
                /\ req' = [req EXCEPT ![r] =
                     [rq EXCEPT !.pc = "access", !.i = 1, !.j = 0,
                                !.sessionDir = folders.sessionDir,
                                !.cur = [src |-> rq.prim[1], dstDir |-> folders.originalsDir],
                                !.log = @ \cup { MkdirOp(d) : d \in made }]]
    /\ UNCHANGED <<groupVars, served, impVars, scanVars, ui, fs, clock, denied>>

\* one fileMap entry of copyOne
MapEntry(src, cam, dst) == [src |-> src, camera |-> cam, dst |-> dst]

\* where copyOne puts a companion: a JPEG of a RAW primary into
\* exports/jpg/, everything else into originals/
DstDirOf(rq, primary, comp) ==
    IF isRawName(basename(primary)) /\ isJpegName(basename(comp))
    THEN join(rq.sessionDir, <<nExports, nJpg>>)
    ELSE join(rq.sessionDir, <<nOriginals>>)

\* copyOriginalsWithCompanions, the loop after one copyOne: the primary is
\* followed by its companions (findCompanionsForImage at that moment), the
\* last companion by the next primary
AfterCopyOne(rq, files, ds) ==
    LET primary == rq.prim[rq.i]
        comps == IF rq.j = 0 THEN findCompanionsForImage(files, ds, primary) ELSE rq.comps
        j == rq.j + 1
    IN  IF j <= Len(comps)
        THEN [rq EXCEPT !.pc = "access", !.comps = comps, !.j = j,
                        !.cur = [src |-> comps[j], dstDir |-> DstDirOf(rq, primary, comps[j])]]
        ELSE IF rq.i + 1 > Len(rq.prim)
        THEN [rq EXCEPT !.pc = "finish", !.i = @ + 1, !.j = 0, !.comps = <<>>]
        ELSE [rq EXCEPT !.pc = "access", !.i = @ + 1, !.j = 0, !.comps = <<>>,
                        !.cur = [src |-> rq.prim[rq.i + 1],
                                 dstDir |-> join(rq.sessionDir, <<nOriginals>>)]]

\* copyOne up to the access test of copyFileEnsured: the camera label, the
\* destination name, mkdir of its directory, fsp.access(dst)
ImpAccess(r) ==
    /\ req[r].pc = "access"
    /\ LET rq  == req[r]
           src == rq.cur.src
           cam == cameraLabelFor(fs, src)
           dst == join(rq.cur.dstDir, <<ensureCameraPrefix(basename(src), cam)>>)
       IN  /\ dirs' = MkdirP(dirs, rq.cur.dstDir)
           /\ req' = [req EXCEPT ![r] =
                IF DstIsFree(fs, dirs, dst)
                THEN [rq EXCEPT !.pc = "copyfile", !.dst = dst,
                                !.log = @ \cup {MkdirOp(rq.cur.dstDir)}]
                ELSE AfterCopyOne(
                       [rq EXCEPT !.nskipped = @ + 1,
                                  !.fileMap = Append(@, MapEntry(src, cam, dst)),
                                  !.log = @ \cup {MkdirOp(rq.cur.dstDir)}], fs, dirs)]
    /\ UNCHANGED <<groupVars, served, impVars, scanVars, ui, fs, clock, denied>>

\* fsp.copyFile(s, d) fails when the source is gone (ENOENT) or denied (EACCES)
CopyError(files, dn, src) ==
    IF src \notin DOMAIN files THEN [failed |-> TRUE, status |-> 409, code |-> "ENOENT"]
    ELSE IF src \in dn THEN [failed |-> TRUE, status |-> 403, code |-> "EACCES"]
    ELSE [failed |-> FALSE, status |-> 0, code |-> ""]

\* fsp.copyFile(s, d): the destination is created or overwritten
Copied(files, src, dst) ==
    [p \in DOMAIN files \cup {dst} |-> IF p = dst THEN files[src] ELSE files[p]]

\* the copy of copyFileEnsured; a failure propagates out of
\* copyOriginalsWithCompanions to the route's catch
ImpCopyFile(r) ==
    /\ req[r].pc = "copyfile"
    /\ LET rq  == req[r]
           src == rq.cur.src
           err == CopyError(fs, denied, src)
       IN  IF err.failed
           THEN /\ req' = [req EXCEPT ![r] = Reject(rq, err.status, err.code)]
                /\ UNCHANGED fs
           ELSE /\ fs' = Copied(fs, src, rq.dst)
                /\ req' = [req EXCEPT ![r] = AfterCopyOne(
                     [rq EXCEPT !.copied = @ + 1,
                                !.fileMap = Append(@,
                                    MapEntry(src, cameraLabelFor(fs, src), rq.dst)),
                                !.log = @ \cup {CopyOp(src, rq.dst)}], fs, dirs)]
    /\ UNCHANGED <<groupVars, served, impVars, scanVars, ui, dirs, clock, denied>>

\* writeSessionJson, writeImportLog, res.json({ok: true, copied, skipped, ...})
ImpFinish(r) ==
    /\ req[r].pc = "finish"
    /\ LET rq == req[r]
           sessionJsonFile == join(rq.sessionDir, <<nSessionJson>>)
           logFile == join(rq.sessionDir, <<nImportLog>>)
           after == (sessionJsonFile :> "session") @@ (logFile :> "log") @@ fs
       IN  /\ fs' = after
           /\ req' = [req EXCEPT ![r] =
                [rq EXCEPT !.pc = "done", !.status = 200,
                           !.log = @ \cup {WriteOp(sessionJsonFile), WriteOp(logFile)}]]
           /\ lastRun' = [valid |-> TRUE, filesIn |-> rq.filesIn, start |-> rq.start,
                          fs |-> after]
    /\ UNCHANGED <<groupVars, served, target, scanVars, ui, dirs, clock, denied>>

\* the media, the archive mount and the failing files before any request
InitOps ==
    /\ scanItems = <<>> /\ grp = NoCall /\ grpPrev = NoCall /\ presets = NoPresets
    /\ target \in TargetInputs
    /\ fs = IF target.state = "file" THEN (TargetRoot :> "x") @@ InitialFiles
            ELSE InitialFiles
    /\ dirs = IF target.state \in {"ok", "readonly"}
              THEN InitialDirs \cup {TargetRoot} ELSE InitialDirs
    /\ clock = 1
    /\ denied \in DeniedChoices
    /\ req = [r \in Reqs |-> IdleReq]
    /\ lastRun = NoRun
    /\ served = 0
    /\ scan = NoScans /\ progress = NoProgress /\ ui = NoUi

\* two import requests served concurrently
NextImport ==
    \/ \E r \in Reqs : ImpStart(r)
    \/ \E r \in Reqs : ImpRoot(r)
    \/ \E r \in Reqs : ImpFolders(r)
    \/ \E r \in Reqs : ImpAccess(r)
    \/ \E r \in Reqs : ImpCopyFile(r)
    \/ \E r \in Reqs : ImpFinish(r)

SpecImport == InitOps /\ [][NextImport]_vars

\* requests of every kind, served one after the other
NextOps ==
    \/ DsStart("r1") \/ DsCollect("r1")
    \/ DelStart("r1") \/ DelStat("r1") \/ DelCollect("r1")
    \/ MkTrash("r1") \/ TrashStat("r1") \/ TrashPrep("r1") \/ TrashRename("r1")
    \/ TrashRespond("r1")
    \/ ImpStart("r1") \/ ImpRoot("r1") \/ ImpFolders("r1")
    \/ ImpAccess("r1") \/ ImpCopyFile("r1") \/ ImpFinish("r1")
    \/ Release("r1")

SpecOps == InitOps /\ [][NextOps]_vars

\* state.sourceRoot of the page: "/" until a folder is chosen, or the
\* scanned folder
FlowRootInputs == { RawPath(<<>>), RawPath(SourceRoot) }

\* importSelectedSession after its import succeeded: POST
\* /api/delete-session with the sourceRoot and the files of the import
FlowDelete(r) ==
    /\ lastRun.valid
    /\ fs = lastRun.fs
    /\ DsStartFrom(r, FlowRootInputs, {lastRun.filesIn})

\* the page imports a session and, on success, deletes it from the source
NextFlow ==
    \/ ImpStart("r1") \/ ImpRoot("r1") \/ ImpFolders("r1")
    \/ ImpAccess("r1") \/ ImpCopyFile("r1") \/ ImpFinish("r1")
    \/ Release("r1")
    \/ FlowDelete("r1") \/ DsCollect("r1")
    \/ MkTrash("r1") \/ TrashStat("r1") \/ TrashPrep("r1") \/ TrashRename("r1")
    \/ TrashRespond("r1")

SpecFlow == InitOps /\ [][NextFlow]_vars

(***************************************************************************)
(* Scan: routes/scan.js (POST /api/scan), lib/scan.js getDateTime and      *)
(* lib/progress.js                                                         *)
(***************************************************************************)
\* CONFIG.scanConcurrency as deployed: unset, 0, 1, 2, 100
ConcurrencyInputs == {NaN, 0, 1, 2, 100}

\* getScanConcurrency() for the configured value
getScanConcurrency(raw) ==
    LET v == IF IsFinite(raw) THEN raw ELSE 8
    IN  MathMax(1, MathMin(v, 32))

\* mapWithConcurrency: c = Math.max(1, Math.min(Number(concurrency) || 1, 32))
WorkerCap(concurrency) ==
    MathMax(1, MathMin(IF IsFinite(concurrency) /\ concurrency # 0 THEN concurrency ELSE 1, 32))

\* PROGRESS_EVERY = Math.max(10, Math.floor(files.length / 50))
PROGRESS_EVERY(n) == MathMax(10, n \div 50)

\* the capture time exiftool reads from a file, and the file's mtime
CaptureTime(p) == 1000 * Len(p) + Len(basename(p))

ModTime(p) == 50000 + CaptureTime(p)

\* setScanProgress(patch): { ...scanProgress, ...patch }
setScanProgress(p, active, current, total, message) ==
    [active |-> active, current |-> current, total |-> total, message |-> message]

\* body.sourceRoot of a scan request; CONFIG.sourceRoot is not set
ScanRootInputs ==
    { RawUndef, RawBlank, RawPath(SourceRoot), RawPath(<<nOut>>), RawPath(<<nIn, nD9arw>>) }

\* normalizeSourceRoot(input): null (EmptyPath) or the resolved path
normalizeSourceRoot(raw) == IF raw.t # "str" THEN EmptyPath ELSE resolve(raw.p)

\* TakeNext that reads nextIndex and leaves the increment to the next turn
TakeNextNoIncrement(s, w) ==
    LET i == s.nextIndex + 1 IN
    IF i > Len(s.files)
    THEN [s EXCEPT !.workers[w] = [at |-> "returned", i |-> 0]]
    ELSE [s EXCEPT !.nextIndex = IF s.calls[i] > 0 THEN @ + 1 ELSE @,
                   !.workers[w] = [at |-> "exif", i |-> i],
                   !.calls[i] = @ + 1,
                   !.pending = @ \cup {i}]

\* one turn of the worker loop: i = nextIndex++; past the end the worker
\* returns, else mapper(list[i], i) runs up to its first await, the
\* exiftool.read(filePath) inside getDateTime
TakeNext(s, w) ==
    LET i == s.nextIndex + 1 IN
    IF i > Len(s.files)
    THEN [s EXCEPT !.nextIndex = @ + 1, !.workers[w] = [at |-> "returned", i |-> 0]]
    ELSE [s EXCEPT !.nextIndex = @ + 1,
                   !.workers[w] = [at |-> "exif", i |-> i],
                   !.calls[i] = @ + 1,
                   !.pending = @ \cup {i}]

\* the workers Array.from({length: Math.min(c, n)}, () => worker()) starts,
\* each run up to its first await
RECURSIVE StartWorkers(_, _)
StartWorkers(s, k) ==
    IF k = 0 THEN s ELSE TakeNext(StartWorkers(s, k - 1), k)

\* the route's onProgress(done, total): a throttled setScanProgress
OnProgress(s, p) ==
    LET n == Len(s.files) IN
    IF s.done = n \/ s.done - s.lastReported >= PROGRESS_EVERY(n)
    THEN [s |-> [s EXCEPT !.lastReported = s.done],
          p |-> setScanProgress(p, TRUE, s.done, n, "Reading timestamps")]
    ELSE [s |-> s, p |-> p]

\* a slot of new Array(n) nothing was stored in, the mapper's null, and
\* its { path: filePath, ts }
Unset == [v |-> "unset", path |-> <<>>, ts |-> 0]

Null == [v |-> "null", path |-> <<>>, ts |-> 0]

Item(p, ts) == [v |-> "item", path |-> p, ts |-> ts]

\* the mapper's value with a getDateTime that has no fsp.stat step
MapperValueNoFallback(p, exif, statOk) ==
    IF exif = "date" THEN Item(p, CaptureTime(p)) ELSE Null

\* the value of the route's mapper for a file: getDateTime returns the
\* capture date, or else the mtime of fsp.stat; when that rejects too the
\* catch returns null
MapperValue(p, exif, statOk) ==
    IF exif = "date" THEN Item(p, CaptureTime(p))
    ELSE IF statOk THEN Item(p, ModTime(p))
    ELSE Null

\* mapped.filter(Boolean)
FilterBoolean(results) ==
    LET keep == { i \in 1..Len(results) : results[i].v = "item" }
        rank(i) == Cardinality({ j \in keep : j <= i })
    IN  [k \in 1..Cardinality(keep) |->
            LET e == results[CHOOSE i \in keep : rank(i) = k]
            IN  [path |-> e.path, ts |-> e.ts]]

\* after mapper(list[i], i) settles in worker w: results[i] = value; done++;
\* onProgress(done, n); the next turn of the loop; when the last worker has
\* returned, Promise.all resolves and the route responds
AfterMapper(s, p, w, value) ==
    LET i  == s.workers[w].i
        s1 == [s EXCEPT !.results[i] = value, !.done = @ + 1,
                        !.reports = Append(@, s.done + 1), !.order = Append(@, i)]
        op == OnProgress(s1, p)
        s2 == TakeNext(op.s, w)
        n  == Len(s.files)
    IN  IF \A v \in 1..Len(s2.workers) : s2.workers[v].at = "returned"
        THEN [s |-> [s2 EXCEPT !.pc = "done", !.status = 200,
                               !.items = FilterBoolean(s2.results)],
              p |-> setScanProgress(op.p, FALSE, n, n, "Done")]
        ELSE [s |-> s2, p |-> op.p]

\* the catch of the route: setScanProgress({active: false, ...}); sendError
ScanFailed(s, status) == [s EXCEPT !.pc = "done", !.status = status]

\* POST /api/scan up to its first await (walk)
ScanStart(r) ==
    /\ scan[r].pc = "idle"
    /\ served < MaxRequests
    /\ \E rootIn \in ScanRootInputs :
         LET sourceRoot == normalizeSourceRoot(rootIn) IN
         IF sourceRoot = EmptyPath
         THEN /\ scan' = [scan EXCEPT ![r] = ScanFailed(IdleScan, 400)]
              /\ progress' = setScanProgress(progress, FALSE, 0, 0, "Failed")
         ELSE /\ scan' = [scan EXCEPT ![r] = [IdleScan EXCEPT !.pc = "walk",
                                                              !.root = sourceRoot]]
              /\ progress' = setScanProgress(progress, TRUE, 0, 0, "Walking folders")
    /\ served' = served + 1
    /\ UNCHANGED <<groupVars, fsVars, impVars, req, ui>>

\* walk(sourceRoot, ALLOWED_EXTS) has settled: failure, the empty result, or
\* the workers start
ScanWalked(r) ==
    /\ scan[r].pc = "walk"
    /\ \E raw \in ConcurrencyInputs :
         LET s     == scan[r]
             found == walk(fs, dirs, s.root, ALLOWED_EXTS, {})
             files == SetToSeq(found.out)
             n     == Len(files)
             c     == WorkerCap(getScanConcurrency(raw))
             k     == IF c <= n THEN c ELSE n
             s1    == [s EXCEPT !.pc = "map", !.files = files,
                                !.c = getScanConcurrency(raw),
                                !.results = [i \in 1..n |-> Unset],
                                !.calls = [i \in 1..n |-> 0],
                                !.workers = [w \in 1..k |-> [at |-> "new", i |-> 0]]]
         IN  IF ~found.ok
             THEN /\ scan' = [scan EXCEPT ![r] = ScanFailed(s, 500)]
                  /\ progress' = setScanProgress(progress, FALSE, 0, 0, "Failed")
             ELSE IF n = 0
             THEN /\ scan' = [scan EXCEPT ![r] = [s EXCEPT !.pc = "done", !.status = 200]]
                  /\ progress' = setScanProgress(progress, FALSE, 0, 0, "Done")
             ELSE /\ scan' = [scan EXCEPT ![r] = StartWorkers(s1, k)]
                  /\ progress' = setScanProgress(progress, TRUE, 0, n, "Reading timestamps")
    /\ UNCHANGED <<groupVars, fsVars, impVars, req, served, ui>>

\* exiftool.read settles within the timeout: with a capture date the item is
\* the mapper's value, without one or on a rejection getDateTime goes on to
\* fsp.stat
ExifSettled(r, w) ==
    /\ scan[r].pc = "map"
    /\ w \in 1..Len(scan[r].workers)
    /\ scan[r].workers[w].at = "exif"
    /\ \E outcome \in {"date", "nodate", "rejected"} :
         LET s  == scan[r]
             i  == s.workers[w].i
             s1 == [s EXCEPT !.pending = @ \ {i}]
         IN  IF outcome = "date"
             THEN LET nx == AfterMapper(s1, progress, w,
                                        MapperValue(s.files[i], "date", TRUE))
                  IN  scan' = [scan EXCEPT ![r] = nx.s] /\ progress' = nx.p
             ELSE /\ scan' = [scan EXCEPT ![r] =
                            [s1 EXCEPT !.workers[w].at = "stat",
                                       !.failed = IF outcome = "rejected" THEN @ \cup {i} ELSE @]]
                  /\ UNCHANGED progress
    /\ UNCHANGED <<groupVars, fsVars, impVars, req, served, ui>>

\* withTimeout: the timer fires first, the race rejects, getDateTime goes on
\* to fsp.stat; nothing cancels the exiftool.read
ExifTimeout(r, w) ==
    /\ scan[r].pc = "map"
    /\ w \in 1..Len(scan[r].workers)
    /\ scan[r].workers[w].at = "exif"
    /\ scan' = [scan EXCEPT ![r].workers[w].at = "stat",
                            ![r].failed = @ \cup {scan[r].workers[w].i}]
    /\ UNCHANGED <<progress, groupVars, fsVars, impVars, req, served, ui>>

\* an exiftool.read whose race was lost settles: nobody awaits it
ExifSettledLate(r) ==
    /\ \E i \in scan[r].pending :
         /\ \A w \in 1..Len(scan[r].workers) :
                ~(scan[r].workers[w].at = "exif" /\ scan[r].workers[w].i = i)
         /\ scan' = [scan EXCEPT ![r].pending = @ \ {i}]
    /\ UNCHANGED <<progress, groupVars, fsVars, impVars, req, served, ui>>

\* fsp.stat settles: the mtime is the timestamp; when it rejects,
\* getDateTime throws and the mapper's catch returns null
StatSettled(r, w) ==
    /\ scan[r].pc = "map"
    /\ w \in 1..Len(scan[r].workers)
    /\ scan[r].workers[w].at = "stat"
    /\ \E ok \in BOOLEAN :
         LET s  == scan[r]
             i  == s.workers[w].i
             s1 == [s EXCEPT !.statOk = IF ok THEN @ \cup {i} ELSE @]
             nx == AfterMapper(s1, progress, w, MapperValue(s.files[i], "nodate", ok))
         IN  scan' = [scan EXCEPT ![r] = nx.s] /\ progress' = nx.p
    /\ UNCHANGED <<groupVars, fsVars, impVars, req, served, ui>>

\* the response has been sent; the slot serves the next request
ScanRelease(r) ==
    /\ scan[r].pc = "done"
    /\ scan[r].pending = {}
    /\ scan' = [scan EXCEPT ![r] = IdleScan]
    /\ UNCHANGED <<progress, groupVars, fsVars, impVars, req, served, ui>>

InitScan ==
    /\ scanItems = <<>> /\ grp = NoCall /\ grpPrev = NoCall /\ presets = NoPresets
    /\ fs = InitialFiles
    /\ dirs = InitialDirs
    /\ clock = 1
    /\ denied = {}
    /\ req = [r \in Reqs |-> IdleReq]
    /\ target = [cfg |-> RawPath(<<nArch>>), state |-> "missing"]
    /\ lastRun = NoRun
    /\ served = 0
    /\ scan = NoScans /\ progress = NoProgress /\ ui = NoUi

NextScan ==
    \E r \in Reqs :
        \/ ScanStart(r)
        \/ ScanWalked(r)
        \/ \E w \in 1..Len(scan[r].workers) :
               ExifSettled(r, w) \/ ExifTimeout(r, w) \/ StatSettled(r, w)
        \/ ExifSettledLate(r)
        \/ ScanRelease(r)

SpecScan == InitScan /\ [][NextScan]_vars

(***************************************************************************)
(* The page: public/app.js runScan, importSelectedSession,                 *)
(* deleteCurrentImage, deleteCurrentSession and the gap slider, with       *)
(* public/lib/util.js normalizeAndSortItems.  The server is a response     *)
(* that arrives or an error; one operation of each kind is in flight at    *)
(* a time.                                                                 *)
(***************************************************************************)
MaxClientItems == 2

\* the operations of the page in flight at a time
MaxInFlight == 2

ClientTsDomain == {0, 500, 70000}

\* the files of a scan in the order of the walk, each with the timestamp
\* acquired for it
ScanAcquired ==
    UNION { { [i \in 1..n |-> [path |-> i, ts |-> f[i]]] : f \in [1..n -> ClientTsDomain] } :
            n \in 0..MaxClientItems }

\* Array.prototype.sort((a, b) => a.ts - b.ts): ascending and stable
SortByTs(items) ==
    LET n == Len(items)
        pos(i) == Cardinality({ j \in 1..n :
                      \/ items[j].ts < items[i].ts
                      \/ items[j].ts = items[i].ts /\ j <= i })
    IN  [k \in 1..n |-> items[CHOOSE i \in 1..n : pos(i) = k]]

\* the items are in ascending order of ts
AscendingByTs(items) == \A i \in 1..(Len(items) - 1) : items[i].ts <= items[i + 1].ts

\* the entries normalizeAndSortItems keeps: a path and a finite ts
ValidItem(it) == IsFinite(it.ts)

\* normalizeAndSortItems without its .sort
normalizeItemsUnsorted(items) == SelectSeq(items, ValidItem)

\* normalizeAndSortItems(items)
normalizeAndSortItems(items) == SortByTs(SelectSeq(items, ValidItem))

\* state.scanItems.filter(it => !set.has(it.path))
WithoutPaths(items, paths) ==
    LET keep(it) == it.path \notin paths IN SelectSeq(items, keep)

\* uiUpdateImportEnabled()
uiUpdateImportEnabled(u) ==
    [u EXCEPT !.importBtnDisabled = ~(u.hasTarget /\ u.selected /\ ~u.busy.importing)]

\* setBusy({scanning, importing, deleting}): the flags not named are false
setBusy(u, scanning, importing, deleting) ==
    uiUpdateImportEnabled(
        [u EXCEPT !.busy = [scanning |-> scanning, importing |-> importing,
                            deleting |-> deleting],
                  !.scanBtnDisabled = scanning,
                  !.deleteBtnDisabled = deleting])

\* what regroupSessionsAndRerender does to the session list of the page:
\* empty when there are no items, else rendered with one session selected
AfterRegroup(u, items) == uiUpdateImportEnabled([u EXCEPT !.selected = (items # <<>>)])

\* applyScanItemsToUi() on the given state.scanItems
ApplyItems(items) ==
    \E snapped \in SnappedChoices(GapStats(items)) :
        LET computed == computeGapPresetsFromItems(items, snapped)
            applied  == uiApplyGapPresets([presets EXCEPT !.computed = computed], computed)
        IN  RegroupOn(items, applied, applied.slider)

\* the tail of the three handlers that remove originals: filter, normalize,
\* applyScanItemsToUi, and the finally with its setBusy
FinishRemoval(u, paths) ==
    LET items == normalizeAndSortItems(WithoutPaths(scanItems, paths)) IN
    /\ scanItems' = items
    /\ ApplyItems(items)
    /\ ui' = setBusy(AfterRegroup(u, items), FALSE, FALSE, FALSE)

\* the finally of a handler whose request failed
FinishFailed(u) ==
    /\ ui' = setBusy(u, FALSE, FALSE, FALSE)
    /\ UNCHANGED groupVars

\* the operations in flight
InFlight(u) ==
    { op \in {"scan", "import", "delete", "deleteSession"} :
        \/ op = "scan" /\ u.scanOp.pc # "idle"
        \/ op = "import" /\ u.importOp.pc # "idle"
        \/ op = "delete" /\ u.deleteOp.pc # "idle"
        \/ op = "deleteSession" /\ u.deleteSessionOp.pc # "idle" }

\* the user may start one more operation
MayStart == Cardinality(InFlight(ui)) < MaxInFlight

\* runScan() up to await apiScan
ClientScanStart ==
    /\ MayStart
    /\ ui.scanOp.pc = "idle" /\ ~ui.scanBtnDisabled
    /\ scanItems' = <<>>
    /\ grp' = NoCall
    /\ ui' = setBusy([ui EXCEPT !.selected = FALSE, !.scanOp.pc = "wait"], TRUE, FALSE, FALSE)
    /\ UNCHANGED <<grpPrev, presets, fsVars, impVars, scanVars, req, served>>

\* the scan response arrives.  The route of part_009 sorts the items and
\* hands them to its groupSessions; the route of part_008 returns them in
\* the order of the walk.
ClientScanDone ==
    /\ ui.scanOp.pc = "wait"
    /\ \E acquired \in ScanAcquired, sortedByServer \in BOOLEAN :
         LET response == IF sortedByServer THEN SortByTs(acquired) ELSE acquired
             items    == normalizeAndSortItems(response)
             u        == [ui EXCEPT !.scanOp.pc = "idle",
                                    !.serverSorted = IF sortedByServer
                                                     THEN @ /\ AscendingByTs(response)
                                                     ELSE @]
         IN  /\ scanItems' = items
             /\ ApplyItems(items)
             /\ ui' = setBusy(AfterRegroup(u, items), FALSE, FALSE, FALSE)
    /\ UNCHANGED <<fsVars, impVars, scanVars, req, served>>

ClientScanFailed ==
    /\ ui.scanOp.pc = "wait"
    /\ FinishFailed([ui EXCEPT !.scanOp.pc = "idle"])
    /\ UNCHANGED <<fsVars, impVars, scanVars, req, served>>

\* importSelectedSession() up to await apiImport
ClientImportStart ==
    /\ MayStart
    /\ ui.importOp.pc = "idle" /\ ~ui.importBtnDisabled
    /\ ui.selected /\ ui.hasTarget
    /\ \E k \in 1..Len(grp.out) :
         ui' = setBusy([ui EXCEPT !.importOp = [pc |-> "import",
                                               files |-> Range(grp.out[k].items)]],
                       FALSE, TRUE, FALSE)
    /\ UNCHANGED <<groupVars, fsVars, impVars, scanVars, req, served>>

\* the import succeeded: POST /api/delete-session is sent
ClientImportCopied ==
    /\ ui.importOp.pc = "import"
    /\ ui' = [ui EXCEPT !.importOp.pc = "delete"]
    /\ UNCHANGED <<groupVars, fsVars, impVars, scanVars, req, served>>

\* the import failed, or the delete after it did
ClientImportFailed ==
    /\ ui.importOp.pc \in {"import", "delete"}
    /\ FinishFailed([ui EXCEPT !.importOp = IdleOp])
    /\ UNCHANGED <<fsVars, impVars, scanVars, req, served>>

\* the delete after the import succeeded
ClientImportDeleted ==
    /\ ui.importOp.pc = "delete"
    /\ FinishRemoval([ui EXCEPT !.importOp = IdleOp], ui.importOp.files)
    /\ UNCHANGED <<fsVars, impVars, scanVars, req, served>>

\* deleteCurrentImage() up to await apiDeleteFile
ClientDeleteStart ==
    /\ MayStart
    /\ ui.deleteOp.pc = "idle" /\ ~ui.deleteBtnDisabled
    /\ ui.selected
    /\ \E k \in 1..Len(scanItems) :
         ui' = setBusy([ui EXCEPT !.deleteOp = [pc |-> "wait",
                                               files |-> {scanItems[k].path}]],
                       FALSE, FALSE, TRUE)
    /\ UNCHANGED <<groupVars, fsVars, impVars, scanVars, req, served>>

ClientDeleteDone ==
    /\ ui.deleteOp.pc = "wait"
    /\ FinishRemoval([ui EXCEPT !.deleteOp = IdleOp], ui.deleteOp.files)
    /\ UNCHANGED <<fsVars, impVars, scanVars, req, served>>

ClientDeleteFailed ==
    /\ ui.deleteOp.pc = "wait"
    /\ FinishFailed([ui EXCEPT !.deleteOp = IdleOp])
    /\ UNCHANGED <<fsVars, impVars, scanVars, req, served>>

\* deleteCurrentSession() up to its fetch
ClientDeleteSessionStart ==
    /\ MayStart
    /\ ui.deleteSessionOp.pc = "idle"
    /\ ui.selected
    /\ \E k \in 1..Len(grp.out) :
         ui' = setBusy([ui EXCEPT !.deleteSessionOp = [pc |-> "wait",
                                                      files |-> Range(grp.out[k].items)]],
                       FALSE, FALSE, TRUE)
    /\ UNCHANGED <<groupVars, fsVars, impVars, scanVars, req, served>>

ClientDeleteSessionDone ==
    /\ ui.deleteSessionOp.pc = "wait"
    /\ FinishRemoval([ui EXCEPT !.deleteSessionOp = IdleOp], ui.deleteSessionOp.files)
    /\ UNCHANGED <<fsVars, impVars, scanVars, req, served>>

ClientDeleteSessionFailed ==
    /\ ui.deleteSessionOp.pc = "wait"
    /\ FinishFailed([ui EXCEPT !.deleteSessionOp = IdleOp])
    /\ UNCHANGED <<fsVars, impVars, scanVars, req, served>>

\* the slider's input event on the page
ClientSlider ==
    /\ \E value \in 0..MathMax(1, Len(presets.gapPresetsMs) - 1) :
         RegroupOn(scanItems, [presets EXCEPT !.slider = value], value)
    /\ ui' = AfterRegroup(ui, scanItems)
    /\ UNCHANGED <<scanItems, fsVars, impVars, scanVars, req, served>>

\* the page after loading: the fallback presets applied (line 1550), the
\* configuration with its target root loaded, nothing scanned
InitClient ==
    /\ scanItems = <<>> /\ grp = NoCall /\ grpPrev = NoCall
    /\ presets = uiApplyGapPresets(NoPresets, FALLBACK_GAP_PRESETS_MS)
    /\ fs = InitialFiles /\ dirs = InitialDirs /\ clock = 1 /\ denied = {}
    /\ req = [r \in Reqs |-> IdleReq]
    /\ target = [cfg |-> RawPath(<<nArch>>), state |-> "missing"]
    /\ lastRun = NoRun
    /\ served = 0
    /\ scan = NoScans /\ progress = NoProgress
    /\ ui = uiUpdateImportEnabled([NoUi EXCEPT !.hasTarget = TRUE])

NextClient ==
    \/ ClientScanStart \/ ClientScanDone \/ ClientScanFailed
    \/ ClientImportStart \/ ClientImportCopied \/ ClientImportFailed \/ ClientImportDeleted
    \/ ClientDeleteStart \/ ClientDeleteDone \/ ClientDeleteFailed
    \/ ClientDeleteSessionStart \/ ClientDeleteSessionDone \/ ClientDeleteSessionFailed
    \/ ClientSlider

SpecClient == InitClient /\ [][NextClient]_vars

\* p is the root or lies below it
InRoot(p, root) == root # EmptyPath /\ IsPrefix(root, p)

\* p lies strictly below the root
Descendant(p, root) == InRoot(p, root) /\ p # root

TrashKinds == {"ds", "del"}

\* C3: no trash-move request (delete-session or single delete) creates a
\* directory, or renames a file from or to a path, outside the root the
\* request declared, whatever the request's inputs are.
C3_NoMutationOutsideRoot ==
    \A r \in Reqs :
        req[r].kind \in TrashKinds =>
            \A e \in req[r].log :
                /\ InRoot(e.path, req[r].root)
                /\ e.op = "rename" => InRoot(e.to, req[r].root)

\* the request value is the declared root followed by a suffix with ".."
HasDotDotSuffix(file, rootIn) ==
    /\ file.t = "str" /\ rootIn.t = "str"
    /\ IsPrefix(rootIn.p, file.p)
    /\ \E k \in (Len(rootIn.p) + 1)..Len(file.p) : file.p[k] = DotDot

\* the request carries such a primary
HasDotDotPrimary(rq) ==
    \E k \in 1..Len(rq.filesIn) : HasDotDotSuffix(rq.filesIn[k], rq.rootIn)

\* the request carries such a primary, and it resolves outside the root
HasEscapingPrimary(rq) ==
    \E k \in 1..Len(rq.filesIn) :
        /\ HasDotDotSuffix(rq.filesIn[k], rq.rootIn)
        /\ ~InRoot(resolve(rq.filesIn[k].p), resolve(rq.rootIn.p))

\* rejected as a scope violation, nothing matched, nothing moved
ScopeRejected(rq) ==
    /\ rq.pc = "done"
    /\ rq.kind \in TrashKinds => rq.status = 403 /\ rq.code = "OUTSIDE_ROOT"
    /\ rq.kind = "res" => rq.code = "THROWN"
    /\ rq.targets = <<>> /\ rq.moved = <<>> /\ rq.log = {}

\* a request the claim speaks of: a trash-move, or a resolveCompanions call
ScopeChecked(rq) == rq.kind \in TrashKinds \/ (rq.kind = "res" /\ rq.variant = "index")

\* C4 as stated: every primary formed from the root and a suffix containing
\* ".." segments is rejected as a scope violation by the Companion Resolver
\* and by trash-move, and no file at that path is matched or moved.
C4_DotDotRejected ==
    \A r \in Reqs :
        ScopeChecked(req[r]) /\ HasDotDotPrimary(req[r]) => ScopeRejected(req[r])

\* C4 amended: a primary formed from the root and a suffix containing ".."
\* segments that resolves to a path outside the root is rejected as a scope
\* violation by the Companion Resolver and by trash-move, and no file at
\* that path is matched or moved.
C4_EscapingRejected ==
    \A r \in Reqs :
        ScopeChecked(req[r]) /\ HasEscapingPrimary(req[r]) => ScopeRejected(req[r])

C4_Witness ==
    /\ req["r1"].kind = "ds"
    /\ HasEscapingPrimary(req["r1"])
    /\ Len(req["r1"].filesIn) = 2
    /\ req["r1"].status = 403

\* C5: every path the Companion Resolver returns (sidecar, edit artifact,
\* raster rendition of a RAW primary) is a descendant of the declared root,
\* also when the index it is given holds paths outside that root.
C5_OutputsInsideRoot ==
    \A r \in Reqs :
        req[r].kind = "res" /\ req[r].variant = "index" =>
            \A k \in 1..Len(req[r].targets) : Descendant(req[r].targets[k], req[r].root)

\* name fn starts with stem, followed by end-of-name or a separator
StartsWithThenSeparator(fn, stem) ==
    /\ StartsWith(lower(fn), lower(stem))
    /\ Len(fn) = Len(stem) \/ fn[Len(stem) + 1] \in SeparatorChars

\* C6: for a primary with extension-less name B and full name F, a companion
\* resolver returns a candidate only if its filename starts with B or F
\* followed by end-of-name or a separator character; a primary named D1 never
\* gets a companion named D10.xxx.
C6_ContainmentMatch ==
    \A r \in Reqs :
        req[r].kind = "res" =>
            LET F == basename(req[r].prim[1])
                B == stripExt(F)
            IN  \A k \in 1..Len(req[r].targets) :
                    LET fn == basename(req[r].targets[k]) IN
                    StartsWithThenSeparator(fn, B) \/ StartsWithThenSeparator(fn, F)

\* a file archive-copy wrote: anything in the archive but session.json
\* and the import log
IsCopyDestination(p) ==
    /\ IsPrefix(TargetRoot, p) /\ p # TargetRoot
    /\ basename(p) \notin {nSessionJson, nImportLog}

\* C7: running archive-copy a second time with the same inputs, after a
\* first run completed, reports copied = 0 and leaves every destination
\* file as it was after the first run.
C7_RerunCopiesNothing ==
    \A r \in Reqs :
        LET rq == req[r] IN
        rq.kind = "imp" /\ rq.rerun /\ rq.pc = "done" =>
            /\ rq.status = 200
            /\ rq.copied = 0
            /\ \A k \in 1..Len(rq.fileMap) :
                   LET d == rq.fileMap[k].dst IN
                   d \in DOMAIN rq.prev /\ d \in DOMAIN fs /\ fs[d] = rq.prev[d]
            /\ \A p \in DOMAIN rq.prev :
                   IsCopyDestination(p) => p \in DOMAIN fs /\ fs[p] = rq.prev[p]

C7_Witness ==
    /\ req["r1"].kind = "imp" /\ req["r1"].rerun /\ req["r1"].pc = "done"
    /\ Len(req["r1"].prim) = 2
    /\ req["r1"].nskipped >= 4

\* C8: archive-copy never overwrites an existing destination file: a
\* destination that exists keeps its content, also when two import requests
\* write into the same session folder concurrently.
C8_NeverOverwrites ==
    [][\A p \in DOMAIN fs :
          IsCopyDestination(p) => p \in DOMAIN fs' /\ fs'[p] = fs[p]]_vars

\* the sources a fileMap names
MappedSources(rq) == { rq.fileMap[k].src : k \in 1..Len(rq.fileMap) }

\* the files a finished trash-move accounts for
Accounted(rq) ==
    { rq.moved[k].from : k \in 1..Len(rq.moved) } \cup Range(rq.skipped) \cup Range(rq.errors)

\* trash-move: every target is accounted for, a target that could not be
\* renamed is in errors
C9_TrashPart(rq) ==
    rq.kind = "ds" /\ rq.pc = "done" /\ rq.status = 200 =>
        /\ Range(rq.targets) \subseteq Accounted(rq)
        /\ \A t \in Range(rq.targets) :
               t \in denied /\ t \in DOMAIN rq.fs0 => t \in Range(rq.errors)

\* archive-copy of files that all exist: the batch runs to its end and
\* every primary and companion is copied, skipped or in errors
C9_ImportPart(rq) ==
    /\ rq.kind = "imp" /\ rq.pc = "done" /\ rq.sessionDir # EmptyPath
    /\ \A k \in 1..Len(rq.prim) : rq.prim[k] \in DOMAIN rq.fs0
    => /\ rq.status = 200
       /\ \A k \in 1..Len(rq.prim) :
              {rq.prim[k]} \cup Range(findCompanionsForImage(rq.fs0, rq.dirs0, rq.prim[k]))
                  \subseteq MappedSources(rq) \cup Range(rq.errors)

\* C9: in trash-move and in archive-copy, an I/O or permission failure on
\* one file is recorded in the result's errors and the remaining files of
\* the batch are still processed; the operation does not abort on the
\* first failing file.
C9_FailuresRecorded ==
    \A r \in Reqs : C9_TrashPart(req[r]) /\ C9_ImportPart(req[r])

\* a request value that is missing or empty
MissingValue(raw) == raw.t \in {"undef", "empty"}

\* the preconditions of section 7, read off the request's inputs
FailsPrecondition(rq) ==
    CASE rq.kind = "ds" ->
           \/ asStringArray(rq.filesIn) = <<>>
           \/ MissingValue(rq.rootIn)
           \/ /\ rq.rootIn.t = "str"
              /\ \E k \in 1..Len(rq.filesIn) :
                     /\ rq.filesIn[k].t = "str"
                     /\ ~InRoot(resolve(rq.filesIn[k].p), resolve(rq.rootIn.p))
      [] rq.kind = "del" ->
           \/ MissingValue(rq.filesIn[1])
           \/ MissingValue(rq.rootIn)
           \/ /\ rq.rootIn.t = "str" /\ rq.filesIn[1].t = "str"
              /\ ~InRoot(resolve(rq.filesIn[1].p), resolve(rq.rootIn.p))
      [] rq.kind = "imp" ->
           \/ asStringArray(rq.filesIn) = <<>>
           \/ rq.start \in {"undef", "hugenum", "badstr"}
           \/ MissingValue(target.cfg)
           \/ target.state = "missing"
      [] OTHER -> FALSE

PreconditionCodes ==
    { "MISSING_SOURCE_ROOT", "MISSING_FILES", "OUTSIDE_ROOT", "MISSING_FILE",
      "NO_FILES", "MISSING_SESSION_START", "BAD_TIMESTAMP",
      "MISSING_ROOT", "ROOT_NOT_FOUND", "NOT_A_DIRECTORY", "NOT_WRITABLE" }

C11_MissingIsSkipped ==
    \A r \in Reqs :
        LET rq == req[r] IN
        /\ rq.kind = "ds" /\ rq.pc = "done" /\ rq.targets # <<>> =>
              /\ rq.status = 200
              /\ \A t \in Range(rq.targets) :
                     ~IsFile(rq.fs0, t) => t \in Range(rq.skipped) /\ t \notin Range(rq.errors)
        /\ rq.kind = "imp" /\ rq.pc = "done" /\ rq.sessionDir # EmptyPath
           /\ (\E k \in 1..Len(rq.prim) : ~IsFile(rq.fs0, rq.prim[k]))
           /\ (\A k \in 1..Len(rq.prim) : rq.prim[k] \notin denied)
           => rq.status = 200 /\ rq.nskipped > 0

\* the moved files lie at <root>/<trash marker>/<one stamp>/<path relative
\* to the root> and are gone from their source paths
MovedIntoLayout(rq) ==
    /\ \E t \in 1..MaxClock :
          \A k \in 1..Len(rq.moved) :
              rq.moved[k].to =
                  rq.root \o <<TrashName, isoStamp(t)>> \o relative(rq.root, rq.moved[k].from)
    /\ \A k \in 1..Len(rq.moved) :
          IsFile(fs, rq.moved[k].to) /\ ~IsFile(fs, rq.moved[k].from)

\* C12: after a trash-move request, every file reported as moved is located
\* at <root>/<trash-marker-dir>/<the request's single timestamp>/<its path
\* relative to root> and no longer exists at its source path.
C12_TrashLayout ==
    \A r \in Reqs :
        req[r].kind \in TrashKinds /\ req[r].pc = "done" /\ req[r].status = 200 =>
            MovedIntoLayout(req[r])

\* a file below a trash directory
InTrash(p) == \E k \in 1..Len(p) : p[k] = TrashName

\* the destination a request computes first for its current target
FirstDestination(rq) ==
    IF rq.kind = "ds"
    THEN join(rq.trashDir, relative(rq.root, rq.targets[rq.i]))
    ELSE join(rq.trashDir, <<basename(rq.targets[rq.i])>>)

\* a step that finds the computed destination taken picks a suffixed one
SuffixOnCollision ==
    \A r \in Reqs :
        req[r].pc = "prep" /\ req'[r].pc = "rename"
        /\ Exists(fs, dirs', FirstDestination(req[r]))
        => /\ req'[r].dst # FirstDestination(req[r])
           /\ req'[r].dst = Append(dirname(FirstDestination(req[r])),
                                   WithSuffix(basename(FirstDestination(req[r])), clock))

\* a step leaves every file of the trash in place with its content
TrashKept == \A p \in DOMAIN fs : InTrash(p) => p \in DOMAIN fs' /\ fs'[p] = fs[p]

\* C13: when the computed trash destination exists the file is renamed to a
\* destination with a time-derived suffix instead of failing, and no file
\* already in the trash is overwritten
C13_CollisionSafe == [][SuffixOnCollision /\ TrashKept]_vars

\* C14: two trash-move requests in flight against the same root use
\* different time-stamped trash folders
C14_OwnTrashFolder ==
    \A r1, r2 \in Reqs :
        /\ r1 # r2
        /\ req[r1].kind \in TrashKinds /\ req[r2].kind \in TrashKinds
        /\ req[r1].pc \in {"stat", "prep", "rename"}
        /\ req[r2].pc \in {"stat", "prep", "rename"}
        /\ req[r1].root = req[r2].root
        => req[r1].trashDir # req[r2].trashDir

\* number of sessions the client grouper forms at a threshold
SessionCount(gapMs) == Len(groupSessionsClientPlain(scanItems, gapMs))

\* the generator has run on the scan items
PresetsComputed == presets.computed # <<>>

\* the generator took its data-derived branch
DataDerived == PresetsComputed /\ Len(GapStats(scanItems).ts) >= 2

\* C15: every generated preset except the smallest and the largest gives a
\* session count that differs from the count of the preset before it or of
\* the preset after it
C15_PresetsChangeClustering ==
    PresetsComputed =>
        \A k \in 2..(Len(presets.computed) - 1) :
            \/ SessionCount(presets.computed[k]) # SessionCount(presets.computed[k - 1])
            \/ SessionCount(presets.computed[k]) # SessionCount(presets.computed[k + 1])

\* C16: the list the generator returns is strictly ascending and holds at
\* least two thresholds
C16_AscendingAtLeastTwo ==
    PresetsComputed =>
        /\ Len(presets.computed) >= 2
        /\ \A k \in 1..(Len(presets.computed) - 1) :
               presets.computed[k] < presets.computed[k + 1]

\* C17 as stated: with fewer than 2 positive consecutive deltas the slider
\* gets a fixed fallback set
C17_FallbackBelowTwoDeltas ==
    PresetsComputed /\ Len(GapStats(scanItems).diffs) < 2 =>
        presets.gapPresetsMs \in {uniqueSorted(FixedPresetsMs), uniqueSorted(FALLBACK_GAP_PRESETS_MS)}

\* C17 amended: with fewer than 2 finite timestamps the generator returns
\* its fixed set 1 s .. 60 s, and the slider gets exactly that set
C17_FallbackBelowTwoTimestamps ==
    PresetsComputed /\ Len(GapStats(scanItems).ts) < 2 =>
        /\ presets.computed = FixedPresetsMs
        /\ presets.gapPresetsMs = FixedPresetsMs

C17_Witness ==
    /\ Len(scanItems) = 1
    /\ presets.computed = FixedPresetsMs
    /\ grp.impl = "plain"

\* C18: data-derived presets all lie in [floor, span] and the largest one
\* is span
C18_ClippedToSpan ==
    DataDerived =>
        /\ \A k \in 1..Len(presets.computed) :
               /\ minFloorMs <= presets.computed[k]
               /\ presets.computed[k] <= GapStats(scanItems).span
        /\ Last(presets.computed) = GapStats(scanItems).span

\* the JPEG renditions that lie next to a RAW primary with the same base name
JpegRenditions(files, primary) ==
    { p \in DOMAIN files :
        /\ isRawName(basename(primary))
        /\ dirname(p) = dirname(primary)
        /\ isJpegName(basename(p))
        /\ stripExt(basename(p)) = stripExt(basename(primary)) }

\* C19: an import of a RAW primary that has a same-base JPEG rendition
\* copies the JPEG into exports/jpg and not into originals
C19_JpegToExports ==
    \A r \in Reqs :
        LET rq == req[r] IN
        rq.kind = "imp" /\ rq.pc = "done" /\ rq.status = 200 =>
            \A k \in 1..Len(rq.prim) :
                IsFile(rq.fs0, rq.prim[k]) =>
                    \A jpg \in JpegRenditions(rq.fs0, rq.prim[k]) :
                        /\ \E e \in Range(rq.fileMap) :
                              /\ e.src = jpg
                              /\ dirname(e.dst) = join(rq.sessionDir, <<nExports, nJpg>>)
                              /\ IsFile(fs, e.dst)
                        /\ \A e \in Range(rq.fileMap) :
                              e.src = jpg => dirname(e.dst) # join(rq.sessionDir, <<nOriginals>>)

\* the roots the trash-move requests name
LiveRoots == { normalizeAbs(x) : x \in RootInputs } \ {EmptyPath}

\* what a scan, an index build and the resolutions under a root return
ReturnedUnder(root) ==
    LET index == buildCompanionIndex(fs, dirs, root, TRUE) IN
    walk(fs, dirs, root, ALLOWED_EXTS, {}).out
    \cup walk(fs, dirs, root, ALLOWED_EXTS, {TrashName}).out
    \cup index
    \cup UNION { Range(resolveCompanions(q, root, index, TRUE).out) : q \in DOMAIN fs }

\* C20: a file that lies in a trash directory is returned by no scan, no
\* companion index build and no companion resolution under a root
C20_TrashNeverReturned ==
    \A root \in LiveRoots : \A p \in ReturnedUnder(root) : ~InTrash(p)

C20_Witness ==
    /\ \E r \in Reqs : req[r].kind \in TrashKinds /\ req[r].pc = "done" /\ req[r].moved # <<>>
    /\ \E p \in DOMAIN fs : InTrash(p) /\ IsPrefix(SourceRoot, p)
    /\ walk(fs, dirs, SourceRoot, ALLOWED_EXTS, {}).out # {}
    /\ \E q \in DOMAIN fs :
          resolveCompanions(q, SourceRoot, buildCompanionIndex(fs, dirs, SourceRoot, TRUE), TRUE).out # <<>>

\* how often a value occurs in a sequence
Count(seq, x) == Cardinality({ i \in 1..Len(seq) : seq[i] = x })

\* the sources of the moved entries of a request
MovedFrom(rq) == [k \in 1..Len(rq.moved) |-> rq.moved[k].from]

\* C29: in the result of a batch trash-move every distinct target is in
\* exactly one of moved, skipped and errors, the three lists hold nothing
\* else, and no file is moved more than once
C29_ExactlyOneOutcome ==
    \A r \in Reqs :
        LET rq == req[r] IN
        rq.kind = "ds" /\ rq.pc = "done" /\ rq.status = 200 =>
            /\ \A t \in Range(rq.targets) :
                   Count(MovedFrom(rq), t) + Count(rq.skipped, t) + Count(rq.errors, t) = 1
            /\ Range(MovedFrom(rq)) \cup Range(rq.skipped) \cup Range(rq.errors)
                   \subseteq Range(rq.targets)
            /\ Range(rq.prim) \subseteq Range(rq.targets)

\* a listed primary is also the resolved companion of the other listed primary
C29_Witness ==
    \E r \in Reqs :
        LET rq == req[r] IN
        /\ rq.kind = "ds" /\ rq.pc = "done" /\ rq.status = 200
        /\ Len(rq.prim) = 2 /\ rq.prim[1] # rq.prim[2]
        /\ rq.prim[2] \in Range(resolveCompanions(rq.prim[1], rq.root,
                                   buildCompanionIndex(rq.fs0, rq.dirs0, rq.root, TRUE), TRUE).out)
        /\ Count(MovedFrom(rq), rq.prim[2]) = 1

\* the candidate files an index build over a readable tree has to hold
IndexCandidates(root, includeJpeg) ==
    { p \in DOMAIN fs :
        /\ IsPrefix(root, p)
        /\ \A k \in Len(root)..(Len(p) - 1) : SubSeq(p, 1, k) \in dirs \ denied
        /\ \A k \in (Len(root) + 1)..Len(p) : ~isHiddenName(p[k])
        /\ \/ isXmpName(lower(basename(p)))
           \/ isOnArtifactNameLower(lower(basename(p)))
           \/ (includeJpeg /\ isJpegName(lower(basename(p)))) }

\* an unreadable subdirectory does not fail the build: the index holds the
\* candidates of the readable part of the tree
SubdirSkipped ==
    \A r \in Reqs :
        LET rq == req[r] IN
        rq.kind = "idx" /\ rq.pc = "done" /\ rq.root \in dirs \ denied =>
            /\ rq.code = "RETURNED"
            /\ Range(rq.targets) = IndexCandidates(rq.root, rq.variant = "jpeg")

\* C21: an index build fails with an error when its root does not exist or
\* cannot be read; an unreadable subdirectory is skipped and the build succeeds
C21_RootFatalSubdirSkipped ==
    /\ \A r \in Reqs :
          req[r].kind = "idx" /\ req[r].pc = "done" /\ req[r].root \notin dirs \ denied =>
              req[r].code = "THROWN"
    /\ SubdirSkipped

\* the scan in the slot has responded with its item list
ScanResponded(s) == s.pc = "done" /\ s.files # <<>>

\* the response lists the file at index i with the given timestamp
Listed(s, i, ts) == \E k \in 1..Len(s.items) : s.items[k] = [path |-> s.files[i], ts |-> ts]

\* the response does not list the file at index i
Unlisted(s, i) == \A k \in 1..Len(s.items) : s.items[k].path # s.files[i]

\* C22 as stated: during a scan, a failure or timeout of the capture-time
\* read for one file makes that file take its filesystem modification time
\* as timestamp; the file still appears in the scan result and the scan is
\* not aborted.
C22_FallbackToMtime ==
    \A r \in Reqs :
        LET s == scan[r] IN
        ScanResponded(s) =>
            /\ s.status = 200
            /\ \A i \in s.failed : Listed(s, i, ModTime(s.files[i]))

\* C22 amended: during a scan, a failure or timeout of the capture-time read
\* for one file makes that file take its filesystem modification time as
\* timestamp and appear in the scan result whenever that modification time
\* can be read; when reading it fails too, the file is left out of the
\* result.  In neither case is the scan aborted: it responds with success
\* and the other files keep their own timestamps.
C22_FallbackOrOmitted ==
    \A r \in Reqs :
        LET s == scan[r] IN
        ScanResponded(s) =>
            /\ s.status = 200
            /\ \A i \in s.failed :
                   IF i \in s.statOk THEN Listed(s, i, ModTime(s.files[i]))
                   ELSE Unlisted(s, i)
            /\ \A i \in 1..Len(s.files) :
                   i \notin s.failed /\ i \notin s.statOk /\ s.results[i].v = "item"
                       => Listed(s, i, CaptureTime(s.files[i]))

\* a scan of two files has responded: one read timed out or failed and the
\* file carries its mtime, the other file carries its capture time
C22_Witness ==
    \E r \in Reqs :
        LET s == scan[r] IN
        /\ ScanResponded(s) /\ Len(s.files) = 2
        /\ \E i \in s.failed : i \in s.statOk /\ Listed(s, i, ModTime(s.files[i]))
        /\ \E i \in 1..2 : i \notin s.failed /\ Listed(s, i, CaptureTime(s.files[i]))

\* C24: during a scan, at no time are more timestamp reads in flight than
\* the configured worker count clamped to 1..32, each worker has at most one
\* read in flight, and progress is reported once after each read completes.
C24_BoundedReads ==
    \A r \in Reqs :
        LET s == scan[r] IN
        s.pc = "map" =>
            /\ s.c \in 1..32
            /\ Cardinality(s.pending) <= s.c
            /\ Cardinality(s.pending) <= Len(s.workers)
            /\ s.reports = [k \in 1..s.done |-> k]

\* the mapper calls in flight: the workers awaiting exiftool.read or fsp.stat
MapperCalls(s) == { w \in 1..Len(s.workers) : s.workers[w].at \in {"exif", "stat"} }

\* the part of C24 that holds: never more mapper calls in flight than the
\* clamped worker count, one progress callback after each completion
C24_BoundedMapperCalls ==
    \A r \in Reqs :
        LET s == scan[r] IN
        s.pc = "map" =>
            /\ s.c \in 1..32
            /\ Cardinality(MapperCalls(s)) <= s.c
            /\ s.reports = [k \in 1..s.done |-> k]

\* C26: mapWithConcurrency invokes the mapper exactly once for every input
\* index, stores each result at the index of its input item regardless of
\* completion order, and resolves only after all n items have completed
\* with the done counter equal to n.
C26_OncePerIndex ==
    \A r \in Reqs :
        LET s == scan[r]
            n == Len(s.files)
        IN  /\ \A i \in 1..n :
                   /\ s.calls[i] <= 1
                   /\ s.results[i].v = "item" => s.results[i].path = s.files[i]
                   /\ s.results[i] # Unset => s.calls[i] = 1 /\ Count(s.order, i) = 1
            /\ s.done = Len(s.order)
            /\ ScanResponded(s) =>
                   /\ s.done = n
                   /\ \A i \in 1..n : s.calls[i] = 1 /\ s.results[i] # Unset

\* two files were mapped by two workers, the second file completed first,
\* and both results sit at their own index
C26_Witness ==
    \E r \in Reqs :
        LET s == scan[r] IN
        /\ ScanResponded(s) /\ Len(s.workers) = 2
        /\ s.order = <<2, 1>>
        /\ s.results[1].path = s.files[1] /\ s.results[2].path = s.files[2]

\* a scan request is in flight: received, not yet responded to
ScanInFlight(r) == scan[r].pc \in {"walk", "map"}

\* C27: the shared scan-progress state reports active = true whenever at
\* least one scan request is in flight and active = false whenever none is
\* (after success, empty result or failure), including when scan requests
\* overlap.
C27_ActiveIffInFlight ==
    progress.active <=> \E r \in Reqs : ScanInFlight(r)

\* the part of C27 that holds: with no scan in flight, active is false
C27_IdleIsInactive ==
    (\A r \in Reqs : ~ScanInFlight(r)) => ~progress.active

\* C23: every item list handed to the Session Grouper is sorted ascending by
\* capture time, after scan, image delete, session delete and import alike,
\* even though timestamp acquisition completes in arbitrary order: the
\* page's list is ascending, the sessions shown are the grouping of that
\* list, and the list the scan route grouped was ascending.
C23_SortedForGrouper ==
    /\ AscendingByTs(scanItems)
    /\ ui.serverSorted
    /\ grp.impl = "plain" /\ scanItems # <<>> =>
           grp.out = groupSessionsClientPlain(scanItems, grp.gap)

\* a scan returned two files in the order of the walk, the later capture
\* first, and the page grouped them in the order of their capture
C23_Witness ==
    /\ scanItems = << [path |-> 2, ts |-> 0], [path |-> 1, ts |-> 500] >>
    /\ grp.impl = "plain" /\ grp.out # <<>>
    /\ ui.scanOp.pc = "idle"

\* C28: while an import (including its delete-after-export step) is in
\* flight, the importing busy flag stays true and the import button stays
\* disabled, even if another UI action (delete image, delete session, scan)
\* starts or finishes in the meantime.
C28_ImportStaysBusy ==
    ui.importOp.pc # "idle" => ui.busy.importing /\ ui.importBtnDisabled

\* the page's preset list has at least two values in ascending order
PresetListUsable ==
    /\ Len(presets.gapPresetsMs) >= 2
    /\ \A k \in 1..(Len(presets.gapPresetsMs) - 1) :
           presets.gapPresetsMs[k] < presets.gapPresetsMs[k + 1]

\* C30: after every client operation (scan, slider move, image delete,
\* session delete, import), the preset list held by the UI has at least two
\* ascending values, the slider index is within the list bounds, and the
\* active gap threshold equals the preset at the slider index.
C30_SliderConsistent ==
    /\ PresetListUsable
    /\ presets.slider \in 0..(Len(presets.gapPresetsMs) - 1)
    /\ presets.gapMs = presets.gapPresetsMs[presets.slider + 1]

\* the part of C30 that holds: the list is usable, state.gapPresetIndex is
\* within its bounds and state.gapMs is the preset at state.gapPresetIndex
C30_StateConsistent ==
    /\ PresetListUsable
    /\ presets.gapPresetIndex \in 0..(Len(presets.gapPresetsMs) - 1)
    /\ presets.gapMs = presets.gapPresetsMs[presets.gapPresetIndex + 1]

\* the delete-session request that follows a successful import of the same
\* files, on the disk the import left
DeleteAfterExport(rq) ==
    /\ rq.kind = "ds" /\ lastRun.valid
    /\ rq.filesIn = lastRun.filesIn /\ rq.fs0 = lastRun.fs

\* the archive target holds a file with the given content
ArchivedCopy(files, content) ==
    \E p \in DOMAIN files : IsCopyDestination(p) /\ files[p] = content

\* C25: in the import-then-delete flow, a source file is moved to trash only
\* if a copy with identical content exists in the archive target; in
\* particular two distinct source files of one batch are never mapped to the
\* same destination path with one of them silently skipped.
C25_TrashedOnlyIfArchived ==
    \A r \in Reqs :
        LET rq == req[r] IN
        DeleteAfterExport(rq) =>
            \A k \in 1..Len(rq.moved) :
                ArchivedCopy(fs, rq.fs0[rq.moved[k].from])

\* capture time of the item with the given path
TsOf(p) == (CHOOSE it \in Range(scanItems) : it.path = p).ts

ItemPaths == [i \in 1..Len(scanItems) |-> scanItems[i].path]

====
